---- MODULE Spec2Model ----
(***************************************************************************)
(* m365backup: the repository storage engine (crates/core) and the backup  *)
(* runs that drive it (crates/cli/src/commands/backup.rs).                 *)
(*                                                                         *)
(* Bytes are small naturals, byte sequences are TLA+ sequences.  A pack    *)
(* object is the flat sequence payload \o manifest \o <<manifest length>>, *)
(* as PackBuilder::finalize lays it out.  The chunk and pack size          *)
(* constants keep their names and their order (MIN < MAX <= TARGET) but    *)
(* are scaled down so that inputs of a few bytes split into several chunks *)
(* and one store_data call flushes several packs.                          *)
(***************************************************************************)
EXTENDS Integers, Sequences, FiniteSets, TLC

VARIABLES
    backend,    \* the object store: key -> object
    repo,       \* the Repository handle of the running process
    call,       \* the store_data call in flight, suspended at an await
    ret,        \* what the last init / open / store_data call returned
    out,        \* what the last read_data / verify call returned
    run,        \* the backup run in progress
    faults      \* history: an object-store operation failed or was cancelled

vars == <<backend, repo, call, ret, out, run, faults>>

----------------------------------------------------------------------------
(* Bounds of the model *)

MaxLen == 4          \* longest input handed to store_data
MaxPacks == 2        \* pack ids (uuids) that may be drawn
MaxSnaps == 1        \* snapshots that may be written
MaxNodes == 1        \* items that backup runs store
MaxIds == 2          \* snapshot ids a caller of save_snapshot may use

\* The byte sequences handed to store_data: the empty input, one chunk, two
\* chunks, inputs that share chunks, an input that holds one chunk twice, and
\* inputs that fill more than one pack.
Catalog ==
    {<<>>, <<1>>, <<1, 0, 0>>, <<1, 1, 1, 1>>, <<1, 0, 1, 0>>, <<1, 1, 1, 1, 0>>}

Inputs == {b \in Catalog : Len(b) <= MaxLen}

----------------------------------------------------------------------------
(* Program constants (scaled) *)

MIN_CHUNK == 1
MAX_CHUNK == 3
TARGET_PACK_SIZE == 3
UUID_LEN == 3        \* characters of an id
SHORT_ID_LEN == 2    \* characters of a short id

CONFIG_PATH == <<"config.json", 0>>
INDEX_PATH == <<"index.json", 0>>
SNAPSHOTS_DIR == "snapshots"
PACKS_DIR == "packs"

\* the range of a u32, scaled: above every offset of a pack that store_data
\* builds (below TARGET_PACK_SIZE + MAX_CHUNK), within reach of a caller of
\* PackBuilder::add
U32_RANGE == 16

\* `as u32` on a usize
U32(x) == x % U32_RANGE

Min(a, b) == IF a < b THEN a ELSE b

SetMax(S) == IF S = {} THEN 0 ELSE CHOOSE x \in S : \A y \in S : y <= x

----------------------------------------------------------------------------
(* crypto.rs: the content hash.  blake3 is collision free on the inputs of *)
(* the model: the hash of a byte sequence is its binary numeral with a     *)
(* leading 1.                                                              *)

RECURSIVE hash_blake3(_)
hash_blake3(data) ==
    IF data = <<>> THEN 1
    ELSE 2 * hash_blake3(SubSeq(data, 1, Len(data) - 1)) + data[Len(data)]

----------------------------------------------------------------------------
(* chunk.rs *)

\* The gear-hash test of the content-defined splitter, on the byte that would
\* end the chunk.
Judge(byte) == byte = 0

\* FastCDC cut: the length of the next chunk of `source`.
RECURSIVE Scan(_, _, _)
Scan(source, p, limit) ==
    IF p >= limit THEN limit
    ELSE IF Judge(source[p]) THEN p
    ELSE Scan(source, p + 1, limit)

Cut(source) ==
    IF Len(source) <= MIN_CHUNK THEN Len(source)
    ELSE Scan(source, MIN_CHUNK + 1, Min(Len(source), MAX_CHUNK))

RECURSIVE ChunkFrom(_, _)
ChunkFrom(data, offset) ==
    IF offset >= Len(data) THEN <<>>
    ELSE LET rest == SubSeq(data, offset + 1, Len(data))
             n == Cut(rest)
             slice == SubSeq(data, offset + 1, offset + n)
         IN  <<[hash |-> hash_blake3(slice), offset |-> offset,
                length |-> n, data |-> slice]>>
             \o ChunkFrom(data, offset + n)

\* mutant: the first byte is left out
Chunker_chunk_tail(data) == ChunkFrom(data, 1)

\* mutant: the cut points depend on the repository the process has open
Chunker_chunk_indexed(data) ==
    IF DOMAIN repo.index = {} \/ data = <<>> THEN ChunkFrom(data, 0)
    ELSE <<[hash |-> hash_blake3(data), offset |-> 0, length |-> Len(data),
            data |-> data]>>

Chunker_chunk(data) == ChunkFrom(data, 0)

to_ref(chunk) ==
    [hash |-> chunk.hash, length |-> chunk.length, offset |-> chunk.offset]

RefsOf(data) ==
    LET cs == Chunker_chunk(data) IN [i \in 1..Len(cs) |-> to_ref(cs[i])]

----------------------------------------------------------------------------
(* index.rs *)

Index_new == [h \in {} |-> 0]

Index_add(index, hash, pack_id, offset, length) ==
    [h \in DOMAIN index \cup {hash} |->
        IF h = hash
        THEN [pack_id |-> pack_id, offset |-> offset, length |-> length]
        ELSE index[h]]

\* mutant: the dedup probe never finds a hash
Index_contains_never(index, hash) == FALSE

Index_contains(index, hash) == hash \in DOMAIN index

\* serde_json of the entries map: one <<hash, pack_id, offset, length>> per entry
Index_to_bytes(index) ==
    {<<h, index[h].pack_id, index[h].offset, index[h].length>> : h \in DOMAIN index}

Index_from_bytes(bytes) ==
    [h \in {t[1] : t \in bytes} |->
        LET t == CHOOSE t \in bytes : t[1] = h
        IN  [pack_id |-> t[2], offset |-> t[3], length |-> t[4]]]

----------------------------------------------------------------------------
(* pack.rs *)

PackBuilder_new(id) == [id |-> id, data |-> <<>>, blobs |-> <<>>]

\* mutant: every blob is recorded at offset 0
PackBuilder_add_offset0(b, chunk) ==
    [b EXCEPT !.data = b.data \o chunk.data,
              !.blobs = Append(b.blobs,
                  [hash |-> chunk.hash, offset |-> 0,
                   length |-> U32(Len(chunk.data))])]

\* mutant: the descriptor of a blob is put in front of the others
PackBuilder_add_front(b, chunk) ==
    [b EXCEPT !.data = b.data \o chunk.data,
              !.blobs = <<[hash |-> chunk.hash, offset |-> U32(Len(b.data)),
                           length |-> U32(Len(chunk.data))]>> \o b.blobs]

PackBuilder_add(b, chunk) ==
    [b EXCEPT !.data = b.data \o chunk.data,
              !.blobs = Append(b.blobs,
                  [hash |-> chunk.hash, offset |-> U32(Len(b.data)),
                   length |-> U32(Len(chunk.data))])]

\* mutant: a pack is never full
should_flush_never(b) == FALSE

should_flush(b) == Len(b.data) >= TARGET_PACK_SIZE

PackBuilder_is_empty(b) == b.blobs = <<>>

\* the manifest {id, blobs:[{hash, offset, length}]} as a flat sequence
RECURSIVE BlobsJson(_)
BlobsJson(blobs) ==
    IF blobs = <<>> THEN <<>>
    ELSE <<blobs[1].hash, blobs[1].offset, blobs[1].length>> \o BlobsJson(Tail(blobs))

HeaderJson(header) == <<header.id>> \o BlobsJson(header.blobs)

\* serde_json::from_slice of a manifest: the blobs after the id
RECURSIVE BlobsFromJson(_)
BlobsFromJson(json) ==
    IF Len(json) < 3 THEN <<>>
    ELSE <<[hash |-> json[1], offset |-> json[2], length |-> json[3]]>>
         \o BlobsFromJson(SubSeq(json, 4, Len(json)))

\* PackFile::parse: [status, header, data]
PackFile_parse(data) ==
    LET len == Len(data)
        NoHeader == [id |-> 0, blobs |-> <<>>]
    IN  IF len < 1 THEN [status |-> "too_small", header |-> NoHeader, data |-> data]
        ELSE LET header_len == data[len]
             IN  IF len < 1 + header_len
                 THEN [status |-> "corrupted", header |-> NoHeader, data |-> data]
                 ELSE LET header_start == len - 1 - header_len
                          json == SubSeq(data, header_start + 1, len - 1)
                      IN  IF json = <<>>
                          THEN [status |-> "err", header |-> NoHeader, data |-> data]
                          ELSE [status |-> "ok",
                                header |-> [id |-> json[1],
                                            blobs |-> BlobsFromJson(Tail(json))],
                                data |-> data]

finalize(b) ==
    LET header == [id |-> b.id, blobs |-> b.blobs]
        header_json == HeaderJson(header)
    IN  [header |-> header,
         data |-> b.data \o header_json \o <<U32(Len(header_json))>>]

----------------------------------------------------------------------------
(* backend/mod.rs, backend/local.rs: the object store, a map from key to   *)
(* whole objects.  A key is <<directory, name>>.                           *)

Backend_write(be, path, data) ==
    [k \in DOMAIN be \cup {path} |-> IF k = path THEN data ELSE be[k]]

Backend_exists(be, path) == path \in DOMAIN be

\* the keys under a prefix (the names are listed sorted)
Backend_list(be, prefix) == {k \in DOMAIN be : k[1] = prefix}

pack_path(pack_id) == <<PACKS_DIR, pack_id>>

snapshot_path(id) == <<SNAPSHOTS_DIR, id>>

PackIds(be) == {k[2] : k \in Backend_list(be, PACKS_DIR)}

----------------------------------------------------------------------------
(* repository.rs *)

RepoConfig == [version |-> 1]

NoRepo == [live |-> FALSE, index |-> Index_new]

\* mutant: the id of the first pack is drawn again
FreshPackId_again(index, be) == 1

\* uuid::Uuid::new_v4: an id that differs from every id in use
FreshPackId(index, be) ==
    1 + SetMax(PackIds(be) \cup {index[h].pack_id : h \in DOMAIN index})

\* The synchronous part of the loop of store_data, from chunk i on, up to the
\* next flush_pack call or the return.
RECURSIVE Advance(_, _, _, _, _)
Advance(index, chunks, i, refs, builder) ==
    IF i > Len(chunks)
    THEN [kind |-> IF PackBuilder_is_empty(builder) THEN "done" ELSE "flush",
          i |-> i, refs |-> refs, builder |-> builder]
    ELSE LET chunk == chunks[i]
             refs2 == Append(refs, to_ref(chunk))
         IN  IF Index_contains(index, chunk.hash)
             THEN Advance(index, chunks, i + 1, refs2, builder)
             ELSE LET b2 == PackBuilder_add(builder, chunk)
                  IN  IF should_flush(b2)
                      THEN [kind |-> "flush", i |-> i + 1, refs |-> refs2,
                            builder |-> b2]
                      ELSE Advance(index, chunks, i + 1, refs2, b2)

\* flush_pack, up to its first await: the index receives the blobs of the pack
RECURSIVE AddBlobs(_, _, _)
AddBlobs(index, pack_id, blobs) ==
    IF blobs = <<>> THEN index
    ELSE AddBlobs(Index_add(index, blobs[1].hash, pack_id, blobs[1].offset,
                            blobs[1].length),
                  pack_id, Tail(blobs))

\* The flushes a store_data call performs when every write succeeds.
RECURSIVE Flushes(_, _, _, _)
Flushes(index, chunks, i, id) ==
    LET r == Advance(index, chunks, i, <<>>, PackBuilder_new(id))
    IN  IF r.kind = "done" THEN 0
        ELSE 1 + Flushes(AddBlobs(index, id, r.builder.blobs), chunks, r.i, id + 1)

IdleCall ==
    [pc |-> "idle", data |-> <<>>, i |-> 0, refs |-> <<>>,
     pack |-> finalize(PackBuilder_new(0)), flushes |-> 0,
     flush0 |-> Index_new, again |-> FALSE, first |-> 0]

NoRet ==
    [op |-> "none", status |-> "none", data |-> <<>>, refs |-> <<>>,
     again |-> FALSE, first |-> 0]

NoOut == [op |-> "none", status |-> "none", refs |-> <<>>, val |-> <<>>]

NoRun == [active |-> FALSE, service |-> "onedrive", nodes |-> <<>>]

\* the stores a process may be pointed at: an empty one, or a repository that
\* a later release of the program created (its config.json carries version 2)
Stores == {[k \in {} |-> 0], [k \in {CONFIG_PATH} |-> [version |-> 2]]}

InitStores ==
    /\ backend \in Stores
    /\ repo = NoRepo
    /\ call = IdleCall
    /\ ret = NoRet
    /\ out = NoOut
    /\ run = NoRun
    /\ faults = FALSE

Init ==
    /\ backend = [k \in {} |-> 0]
    /\ repo = NoRepo
    /\ call = IdleCall
    /\ ret = NoRet
    /\ out = NoOut
    /\ run = NoRun
    /\ faults = FALSE

\* mutant: init without the test for config.json
RepoInit_unchecked(outcome) ==
    /\ call.pc = "idle"
    /\ ~run.active
    /\ outcome = "ok"
    /\ out' = NoOut
    /\ UNCHANGED <<run, call, faults>>
    /\ backend' = Backend_write(Backend_write(backend, CONFIG_PATH, RepoConfig),
                                INDEX_PATH, Index_to_bytes(Index_new))
    /\ repo' = [live |-> TRUE, index |-> Index_new]
    /\ ret' = [NoRet EXCEPT !.op = "init", !.status = "ok"]

\* Repository::init.  outcome: which step fails, if any.
RepoInit(outcome) ==
    /\ call.pc = "idle"
    /\ ~run.active
    /\ out' = NoOut
    /\ run' = run
    /\ call' = call
    /\ faults' = (faults \/ outcome \in {"config_write_err", "index_write_err"})
    /\ IF Backend_exists(backend, CONFIG_PATH)
       THEN /\ outcome = "ok"
            /\ ret' = [NoRet EXCEPT !.op = "init", !.status = "already_initialized"]
            /\ UNCHANGED <<backend, repo>>
       ELSE \/ /\ outcome = "config_write_err"
               /\ ret' = [NoRet EXCEPT !.op = "init", !.status = "err"]
               /\ UNCHANGED <<backend, repo>>
            \/ /\ outcome \in {"index_write_err", "to_bytes_err"}
               /\ backend' = Backend_write(backend, CONFIG_PATH, RepoConfig)
               /\ ret' = [NoRet EXCEPT !.op = "init", !.status = "err"]
               /\ repo' = repo
            \/ /\ outcome = "ok"
               /\ backend' = Backend_write(
                      Backend_write(backend, CONFIG_PATH, RepoConfig),
                      INDEX_PATH, Index_to_bytes(Index_new))
               /\ repo' = [live |-> TRUE, index |-> Index_new]
               /\ ret' = [NoRet EXCEPT !.op = "init", !.status = "ok"]

\* mutant: open creates the index.json it does not find
RepoOpen_creating(outcome) ==
    /\ call.pc = "idle"
    /\ ~run.active
    /\ outcome = "ok"
    /\ Backend_exists(backend, CONFIG_PATH)
    /\ backend[CONFIG_PATH].version = 1
    /\ out' = NoOut
    /\ UNCHANGED <<call, run, faults>>
    /\ backend' = IF Backend_exists(backend, INDEX_PATH) THEN backend
                  ELSE Backend_write(backend, INDEX_PATH, Index_to_bytes(Index_new))
    /\ repo' = [live |-> TRUE, index |-> Index_from_bytes(backend'[INDEX_PATH])]
    /\ ret' = [NoRet EXCEPT !.op = "open", !.status = "ok"]

\* Repository::open
RepoOpen(outcome) ==
    /\ call.pc = "idle"
    /\ ~run.active
    /\ out' = NoOut
    /\ UNCHANGED <<backend, call, run>>
    /\ faults' = (faults \/ outcome = "read_err")
    /\ IF ~Backend_exists(backend, CONFIG_PATH)
       THEN /\ outcome = "ok"
            /\ ret' = [NoRet EXCEPT !.op = "open", !.status = "not_a_repository"]
            /\ repo' = repo
       ELSE IF backend[CONFIG_PATH].version # 1
       THEN /\ outcome = "ok"
            /\ ret' = [NoRet EXCEPT !.op = "open", !.status = "unsupported_version"]
            /\ repo' = repo
       ELSE \/ /\ outcome = "read_err"
               /\ ret' = [NoRet EXCEPT !.op = "open", !.status = "err"]
               /\ repo' = repo
            \/ /\ outcome = "ok"
               /\ repo' = [live |-> TRUE,
                           index |-> IF Backend_exists(backend, INDEX_PATH)
                                     THEN Index_from_bytes(backend[INDEX_PATH])
                                     ELSE Index_new]
               /\ ret' = [NoRet EXCEPT !.op = "open", !.status = "ok"]

\* store_data returns an error (or its future is dropped); storeErr: an
\* object-store operation did not succeed (else the serializer failed).  A backup run
\* propagates the error with `?` and the process ends; any other caller keeps
\* the handle.
Fail(status, storeErr) ==
    /\ call' = IdleCall
    /\ ret' = [op |-> "store_data", status |-> status, data |-> call.data,
               refs |-> <<>>, again |-> call.again, first |-> call.first]
    /\ faults' = (faults \/ storeErr)
    /\ IF run.active
       THEN repo' = NoRepo /\ run' = NoRun
       ELSE UNCHANGED <<repo, run>>

\* store_data runs from chunk i to its next await (the pack write of
\* flush_pack) or to its return.  c: the call so far, be: the store.
Proceed(c, index, be) ==
    LET chunks == Chunker_chunk(c.data)
        r == Advance(index, chunks, c.i, c.refs,
                     PackBuilder_new(FreshPackId(index, be)))
    IN  IF r.kind = "done"
        THEN /\ call' = IdleCall
             /\ repo' = [repo EXCEPT !.index = index]
             /\ ret' = [op |-> "store_data", status |-> "ok", data |-> c.data,
                        refs |-> r.refs, again |-> c.again, first |-> c.first]
             /\ run' = IF run.active
                       THEN [run EXCEPT !.nodes = Append(@, r.refs)]
                       ELSE run
        ELSE LET pack == finalize(r.builder)
             IN  /\ call' = [c EXCEPT !.pc = "pack_write", !.i = r.i,
                                      !.refs = r.refs, !.pack = pack,
                                      !.flushes = c.flushes + 1,
                                      !.flush0 = index]
                 /\ repo' = [repo EXCEPT !.index =
                                AddBlobs(index, pack.header.id, pack.header.blobs)]
                 /\ UNCHANGED <<ret, run>>

\* Repository::store_data, from the call to its first await or its return
StoreBegin(data) ==
    /\ repo.live
    /\ call.pc = "idle"
    /\ LET fresh == FreshPackId(repo.index, backend)
           n == Flushes(repo.index, Chunker_chunk(data), 1, fresh)
       IN  n = 0 \/ fresh + n - 1 <= MaxPacks
    /\ out' = NoOut
    /\ backend' = backend
    /\ faults' = faults
    /\ Proceed([IdleCall EXCEPT !.data = data, !.i = 1,
                    !.again = (ret.op = "store_data" /\ ret.status = "ok"
                               /\ ret.data = data),
                    !.first = FreshPackId(repo.index, backend)],
               repo.index, backend)

StoreData(data) == ~run.active /\ StoreBegin(data)

\* flush_pack: backend.write(&pack_path, &pack.data).await?
PackWrite(ok) ==
    /\ call.pc = "pack_write"
    /\ out' = out
    /\ IF ok
       THEN /\ backend' = Backend_write(backend, pack_path(call.pack.header.id),
                                        call.pack.data)
            /\ call' = [call EXCEPT !.pc = "index_write"]
            /\ UNCHANGED <<repo, ret, run, faults>>
       ELSE /\ backend' = backend
            /\ Fail("err", TRUE)

\* mutant: flush_pack does not save the index
IndexWrite_skip(outcome) ==
    /\ call.pc = "index_write"
    /\ out' = out
    /\ \/ /\ outcome = "ok"
          /\ backend' = backend
          /\ faults' = faults
          /\ Proceed(call, repo.index, backend')
       \/ /\ outcome \in {"write_err", "to_bytes_err"}
          /\ backend' = backend
          /\ Fail("err", outcome = "write_err")

\* flush_pack: self.save_index().await?, then the loop of store_data goes on
IndexWrite(outcome) ==
    /\ call.pc = "index_write"
    /\ out' = out
    /\ \/ /\ outcome = "ok"
          /\ backend' = Backend_write(backend, INDEX_PATH, Index_to_bytes(repo.index))
          /\ faults' = faults
          /\ Proceed(call, repo.index, backend')
       \/ /\ outcome \in {"write_err", "to_bytes_err"}
          /\ backend' = backend
          /\ Fail("err", outcome = "write_err")

\* the future of store_data is dropped at one of its awaits
Cancel ==
    /\ call.pc \in {"pack_write", "index_write"}
    /\ UNCHANGED <<backend, out>>
    /\ Fail("cancelled", TRUE)

\* Repository::read_data: [status, val]
RECURSIVE read_data(_, _, _)
read_data(index, be, chunk_refs) ==
    IF chunk_refs = <<>> THEN [status |-> "ok", val |-> <<>>]
    ELSE LET hash == chunk_refs[1].hash
         IN  IF ~Index_contains(index, hash)
             THEN [status |-> "missing_blob", val |-> <<>>]
             ELSE LET location == index[hash]
                      path == pack_path(location.pack_id)
                  IN  IF ~Backend_exists(be, path)
                      THEN [status |-> "err", val |-> <<>>]
                      ELSE IF location.offset + location.length > Len(be[path])
                      THEN [status |-> "panic", val |-> <<>>]
                      ELSE LET blob == SubSeq(be[path], location.offset + 1,
                                              location.offset + location.length)
                               rest == read_data(index, be, Tail(chunk_refs))
                           IN  IF rest.status # "ok" THEN rest
                               ELSE [status |-> "ok", val |-> blob \o rest.val]

\* snapshot.rs: Snapshot::to_bytes / from_bytes
Snapshot_to_bytes(s) ==
    <<s.id, s.timestamp, s.tenant, s.service, s.user, s.parent, s.tree,
      s.delta_tokens, s.stats>>

Snapshot_from_bytes(b) ==
    [id |-> b[1], timestamp |-> b[2], tenant |-> b[3], service |-> b[4],
     user |-> b[5], parent |-> b[6], tree |-> b[7], delta_tokens |-> b[8],
     stats |-> b[9]]

\* the keys of a set of paths, in the sorted order Backend::list returns
RECURSIVE SortedPaths(_)
SortedPaths(S) ==
    IF S = {} THEN <<>>
    ELSE LET k == CHOOSE x \in S : \A y \in S : x[2] <= y[2]
         IN  <<k>> \o SortedPaths(S \ {k})

\* mutant: the listing is not sorted
SortDesc_unsorted(snaps) == snaps

\* snapshots.sort_by(|a, b| b.timestamp.cmp(&a.timestamp)): stable, descending
RECURSIVE SortDesc(_)
SortDesc(snaps) ==
    IF snaps = <<>> THEN <<>>
    ELSE LET m == CHOOSE i \in 1..Len(snaps) :
                    /\ \A j \in 1..Len(snaps) : snaps[j].timestamp <= snaps[i].timestamp
                    /\ \A j \in 1..(i - 1) : snaps[j].timestamp < snaps[i].timestamp
         IN  <<snaps[m]>> \o
             SortDesc([j \in 1..(Len(snaps) - 1) |->
                          IF j < m THEN snaps[j] ELSE snaps[j + 1]])

\* Repository::list_snapshots
list_snapshots(be) ==
    LET paths == SortedPaths(Backend_list(be, SNAPSHOTS_DIR))
    IN  SortDesc([i \in 1..Len(paths) |-> Snapshot_from_bytes(be[paths[i]])])

\* the index entries in the order the HashMap yields them (some order)
RECURSIVE Entries(_)
Entries(H) ==
    IF H = {} THEN <<>>
    ELSE LET h == CHOOSE x \in H : TRUE IN <<h>> \o Entries(H \ {h})

\* the second loop of verify: one message per entry whose pack is not found
RECURSIVE VerifyErrors(_, _, _)
VerifyErrors(index, hashes, found_packs) ==
    IF hashes = <<>> THEN <<>>
    ELSE (IF index[hashes[1]].pack_id \notin found_packs
          THEN <<[blob |-> hashes[1], pack |-> index[hashes[1]].pack_id]>>
          ELSE <<>>)
         \o VerifyErrors(index, Tail(hashes), found_packs)

\* mutant: the names are collected from the listing of another directory
verify_wrong_dir(index, be) ==
    LET pack_paths == Backend_list(be, SNAPSHOTS_DIR)
        found_packs == {path[2] : path \in pack_paths}
    IN  [packs_checked |-> Cardinality(pack_paths),
         blobs_checked |-> Cardinality(DOMAIN index),
         snapshots_checked |-> Len(list_snapshots(be)),
         errors |-> VerifyErrors(index, Entries(DOMAIN index), found_packs)]

\* mutant: only the packs that parse are counted
verify_parsing_packs(index, be) ==
    LET pack_paths == Backend_list(be, PACKS_DIR)
        found_packs == {path[2] : path \in pack_paths}
    IN  [packs_checked |->
             Cardinality({path \in pack_paths : PackFile_parse(be[path]).status = "ok"}),
         blobs_checked |-> Cardinality(DOMAIN index),
         snapshots_checked |-> Len(list_snapshots(be)),
         errors |-> VerifyErrors(index, Entries(DOMAIN index), found_packs)]

\* Repository::verify
verify(index, be) ==
    LET pack_paths == Backend_list(be, PACKS_DIR)
        found_packs == {path[2] : path \in pack_paths}
    IN  [packs_checked |-> Cardinality(pack_paths),
         blobs_checked |-> Cardinality(DOMAIN index),
         snapshots_checked |-> Len(list_snapshots(be)),
         errors |-> VerifyErrors(index, Entries(DOMAIN index), found_packs)]

\* VerifyResult::is_ok
is_ok(result) == result.errors = <<>>

\* read_data is called with the refs the last store_data call returned
ReadData ==
    /\ repo.live
    /\ call.pc = "idle"
    /\ ~run.active
    /\ ret.op = "store_data" /\ ret.status = "ok"
    /\ LET r == read_data(repo.index, backend, ret.refs)
       IN  out' = [op |-> "read_data", status |-> r.status, refs |-> ret.refs,
                   val |-> r.val]
    /\ UNCHANGED <<backend, repo, call, ret, run, faults>>

Verify ==
    /\ repo.live
    /\ call.pc = "idle"
    /\ ~run.active
    /\ out' = [op |-> "verify", status |-> "ok", refs |-> <<>>,
               val |-> verify(repo.index, backend)]
    /\ UNCHANGED <<backend, repo, call, ret, run, faults>>

----------------------------------------------------------------------------
(* snapshots *)

Tenants == {"acme"}
Users == {"u1"}

SnapIds(be) == {k[2] : k \in Backend_list(be, SNAPSHOTS_DIR)}

\* uuid of a new snapshot
FreshSnapId(be) == 1 + SetMax(SnapIds(be))

\* Utc::now(): after the timestamp of every stored snapshot
Now(be) ==
    1 + SetMax({Snapshot_from_bytes(be[snapshot_path(id)]).timestamp : id \in SnapIds(be)})

\* Snapshot::new
Snapshot_new(id, timestamp, tenant, service, user) ==
    [id |-> id, timestamp |-> timestamp, tenant |-> tenant, service |-> service,
     user |-> user, parent |-> <<>>, tree |-> <<>>,
     delta_tokens |-> [k \in {} |-> 0],
     stats |-> [total_items |-> 0, new_items |-> 0, unchanged_items |-> 0,
                total_bytes |-> 0, new_bytes |-> 0, deduplicated_bytes |-> 0]]

TreeNode(chunk_refs) == [chunks |-> chunk_refs]

----------------------------------------------------------------------------
(* backup.rs: a backup run (one process) *)

\* backup::run after Repository::open succeeded: the loop over the users starts
RunStart(service) ==
    /\ ~run.active
    /\ repo.live
    /\ call.pc = "idle"
    /\ ret.op = "open" /\ ret.status = "ok"
    /\ run' = [active |-> TRUE, service |-> service, nodes |-> <<>>]
    /\ out' = NoOut
    /\ UNCHANGED <<backend, repo, call, ret, faults>>

RECURSIVE SumNodes(_, _)
SumNodes(be, ids) ==
    IF ids = {} THEN 0
    ELSE LET id == CHOOSE x \in ids : TRUE
         IN  Len(Snapshot_from_bytes(be[snapshot_path(id)]).tree)
             + SumNodes(be, ids \ {id})

\* the items that made it into a tree so far
NodesStored == Len(run.nodes) + SumNodes(backend, SnapIds(backend))

\* an item was downloaded: repo.store_data(&data).await?
RunStore(data) ==
    /\ run.active
    /\ NodesStored < MaxNodes
    /\ StoreBegin(data)

\* the items of the user are stored: the snapshot is built and saved
RunSave(ok) ==
    /\ run.active
    /\ call.pc = "idle"
    /\ run.service = "exchange" \/ run.nodes # <<>>
    /\ FreshSnapId(backend) <= MaxSnaps
    /\ out' = NoOut
    /\ UNCHANGED <<call, ret>>
    /\ faults' = (faults \/ ~ok)
    /\ IF ok
       THEN LET snapshot == [Snapshot_new(FreshSnapId(backend), Now(backend), "acme",
                                          run.service, <<"u1">>)
                                EXCEPT !.tree = [i \in 1..Len(run.nodes) |->
                                                    TreeNode(run.nodes[i])]]
            IN  /\ backend' = Backend_write(backend, snapshot_path(snapshot.id),
                                            Snapshot_to_bytes(snapshot))
                /\ run' = [run EXCEPT !.nodes = <<>>]
                /\ repo' = repo
       ELSE /\ backend' = backend
            /\ run' = NoRun
            /\ repo' = NoRepo

\* the run returns (no user is left, or a Graph call failed) and the process ends
RunEnd ==
    /\ run.active
    /\ call.pc = "idle"
    /\ run' = NoRun
    /\ repo' = NoRepo
    /\ out' = NoOut
    /\ UNCHANGED <<backend, call, ret, faults>>

----------------------------------------------------------------------------

Services == {"onedrive", "exchange"}

----------------------------------------------------------------------------
(* repository.rs: the operations a caller of the library runs on a handle, *)
(* with arguments of its choice.  Text is a sequence of one-character      *)
(* strings.                                                                *)

\* Option<T>
None == <<>>
Some(x) == <<x>>

\* the characters of a directory constant
Chars(dir) ==
    IF dir = SNAPSHOTS_DIR THEN <<"s", "n", "a", "p", "s", "h", "o", "t", "s">>
    ELSE <<"p", "a", "c", "k", "s">>

JSON_EXT == <<".", "j", "s", "o", "n">>

\* uuid::Uuid::to_string (scaled): the id as fixed-width text over hex digits;
\* the ids of the model are numbered in the order of their text
RECURSIVE UuidText(_, _)
UuidText(n, len) ==
    IF len = 0 THEN <<>>
    ELSE UuidText(n \div 2, len - 1) \o <<IF n % 2 = 0 THEN "0" ELSE "a">>

Uuid(id) == UuidText(id - 1, UUID_LEN)

\* Snapshot::short_id: &self.id[..8]
short_id(id) == SubSeq(Uuid(id), 1, SHORT_ID_LEN)

\* the file name <id>.json and the path snapshots/<id>.json, as list returns it
FileName(id) == Uuid(id) \o JSON_EXT

PathText(path) == Chars(path[1]) \o <<"/">> \o FileName(path[2])

\* str::contains
Contains(text, pat) ==
    \E i \in 0..(Len(text) - Len(pat)) : SubSeq(text, i + 1, i + Len(pat)) = pat

\* str::ends_with
EndsWith(text, pat) ==
    /\ Len(pat) <= Len(text)
    /\ SubSeq(text, Len(text) - Len(pat) + 1, Len(text)) = pat

\* Repository::get_snapshot: [status, val]
RECURSIVE FirstMatch(_, _, _)
FirstMatch(be, paths, id) ==
    IF paths = <<>> THEN [status |-> "not_found", val |-> None]
    ELSE IF Contains(PathText(paths[1]), id) /\ EndsWith(PathText(paths[1]), JSON_EXT)
    THEN [status |-> "ok", val |-> Some(Snapshot_from_bytes(be[paths[1]]))]
    ELSE FirstMatch(be, Tail(paths), id)

get_snapshot(be, id) == FirstMatch(be, SortedPaths(Backend_list(be, SNAPSHOTS_DIR)), id)

\* Iterator::find
RECURSIVE Find(_, _, _, _)
Find(snaps, tenant, service, user) ==
    IF snaps = <<>> THEN None
    ELSE IF /\ snaps[1].tenant = tenant
            /\ snaps[1].service = service
            /\ snaps[1].user = user
    THEN Some(snaps[1])
    ELSE Find(Tail(snaps), tenant, service, user)

\* mutant: the user is not compared
find_latest_any_user(be, tenant, service, user) ==
    LET snaps == list_snapshots(be)
        hits == {i \in 1..Len(snaps) :
                    snaps[i].tenant = tenant /\ snaps[i].service = service}
    IN  IF hits = {} THEN None
        ELSE Some(snaps[CHOOSE i \in hits : \A j \in hits : i <= j])

\* Repository::find_latest_snapshot
find_latest_snapshot(be, tenant, service, user) ==
    Find(list_snapshots(be), tenant, service, user)

\* The snapshots a caller hands to save_snapshot: two of one tenant, service
\* and user taken at different times, one that carries the id of another with
\* other contents, one of another service, and a third id.
SnapshotCatalog ==
    {[Snapshot_new(1, 1, "acme", "onedrive", None) EXCEPT !.tree = <<>>],
     [Snapshot_new(2, 2, "acme", "onedrive", None) EXCEPT !.tree = <<>>],
     [Snapshot_new(2, 1, "acme", "onedrive", Some("u1")) EXCEPT !.tree = <<>>],
     [Snapshot_new(1, 2, "acme", "exchange", None) EXCEPT !.tree = <<>>],
     [Snapshot_new(3, 2, "acme", "onedrive", None) EXCEPT !.tree = <<>>]}

SnapshotInputs == {s \in SnapshotCatalog : s.id <= MaxIds}

\* the items stored next to the snapshots
Items == {<<1>>, <<1, 0, 0>>}

\* the refs handed to read_data: those of the chunks of the items, and one of
\* a chunk that is never stored
RefPool ==
    {to_ref(c) : c \in {Chunker_chunk(<<1>>)[1], Chunker_chunk(<<1, 0, 0>>)[1],
                        Chunker_chunk(<<1, 1, 1>>)[1]}}

RefLists == {<<r>> : r \in RefPool} \cup {<<r, q>> : r \in RefPool, q \in RefPool}

\* the strings handed to get_snapshot: short ids, a hex digit, a piece of the
\* directory name, a string no path contains
Queries ==
    {short_id(id) : id \in 1..MaxIds}
        \cup {<<"a">>, <<"s", "n", "a", "p">>, <<"a", "a", "a", "a">>}

QueryTenants == Tenants \cup {"globex"}

\* Repository::read_data on refs of the caller's choice
ReadRefs(refs) ==
    /\ repo.live
    /\ call.pc = "idle"
    /\ ~run.active
    /\ LET r == read_data(repo.index, backend, refs)
       IN  out' = [op |-> "read_data", status |-> r.status, refs |-> refs,
                   val |-> r.val]
    /\ UNCHANGED <<backend, repo, call, ret, run, faults>>

\* Repository::save_snapshot
SaveSnapshot(snapshot, ok) ==
    /\ repo.live
    /\ call.pc = "idle"
    /\ ~run.active
    /\ out' = NoOut
    /\ backend' = IF ok
                  THEN Backend_write(backend, snapshot_path(snapshot.id),
                                     Snapshot_to_bytes(snapshot))
                  ELSE backend
    /\ faults' = (faults \/ ~ok)
    /\ UNCHANGED <<repo, call, ret, run>>

\* Repository::list_snapshots
ListSnapshots ==
    /\ repo.live
    /\ call.pc = "idle"
    /\ ~run.active
    /\ out' = [op |-> "list_snapshots", status |-> "ok", refs |-> <<>>,
               val |-> list_snapshots(backend)]
    /\ UNCHANGED <<backend, repo, call, ret, run, faults>>

\* Repository::get_snapshot
GetSnapshot(id) ==
    /\ repo.live
    /\ call.pc = "idle"
    /\ ~run.active
    /\ LET r == get_snapshot(backend, id)
       IN  out' = [op |-> "get_snapshot", status |-> r.status, refs |-> <<>>,
                   val |-> [id |-> id, found |-> r.val]]
    /\ UNCHANGED <<backend, repo, call, ret, run, faults>>

\* Repository::find_latest_snapshot
FindLatest(tenant, service, user) ==
    /\ repo.live
    /\ call.pc = "idle"
    /\ ~run.active
    /\ out' = [op |-> "find_latest_snapshot", status |-> "ok", refs |-> <<>>,
               val |-> [tenant |-> tenant, service |-> service, user |-> user,
                        found |-> find_latest_snapshot(backend, tenant, service, user)]]
    /\ UNCHANGED <<backend, repo, call, ret, run, faults>>

----------------------------------------------------------------------------
(* chunk.rs, pack.rs, crypto.rs, backup.rs: the functions that touch no    *)
(* repository, applied to inputs drawn from bounded sets.  `out` holds the *)
(* call and its result.                                                    *)

MaxBytes == 6        \* longest input handed to Chunker::chunk
MaxAdds == 3         \* PackBuilder::add calls before finalize
MaxName == 4         \* characters of a name handed to sanitize_filename

ByteSeqs == UNION {[1..n -> {0, 1}] : n \in 0..MaxBytes}

\* Chunker::chunk
Chunk(data) ==
    /\ out.op = "none"
    /\ out' = [op |-> "chunk", status |-> "ok", refs |-> <<>>,
               val |-> [data |-> data, chunks |-> Chunker_chunk(data)]]
    /\ UNCHANGED <<backend, repo, call, ret, run, faults>>

(* pack.rs, driven by a caller of PackBuilder *)

\* a Chunk built by hand, as the test pack_roundtrip builds its chunks
ChunkOf(data) ==
    [hash |-> hash_blake3(data), offset |-> 0, length |-> Len(data), data |-> data]

\* the contents added to a pack: small blobs, and two blobs of half the u32
\* range each
PackBlobs ==
    {<<1>>, <<1, 0, 0>>, <<1, 1, 1, 1, 1, 1, 1, 1>>, <<1, 0, 1, 0, 1, 0, 1, 0>>}

\* the hashes handed to extract_blob: those of the contents, and one of a
\* content that is never added
QueryHashes == {hash_blake3(d) : d \in PackBlobs \cup {<<0>>}}

\* PackFile::extract_blob: the slice of the first descriptor with the hash
extract_blob(pack, hash) ==
    LET blobs == pack.header.blobs
        hits == {i \in 1..Len(blobs) : blobs[i].hash = hash}
    IN  IF hits = {} THEN [status |-> "none", val |-> <<>>]
        ELSE LET b == blobs[CHOOSE i \in hits : \A j \in hits : i <= j]
             IN  IF b.offset + b.length >= U32_RANGE
                    \/ b.offset + b.length > Len(pack.data)
                 THEN [status |-> "panic", val |-> <<>>]
                 ELSE [status |-> "some",
                       val |-> SubSeq(pack.data, b.offset + 1, b.offset + b.length)]

\* PackBuilder::new
PackNew ==
    /\ out.op = "none"
    /\ out' = [op |-> "builder", status |-> "ok", refs |-> <<>>,
               val |-> [builder |-> PackBuilder_new(1), added |-> <<>>]]
    /\ UNCHANGED <<backend, repo, call, ret, run, faults>>

\* PackBuilder::add
PackAdd(chunk) ==
    /\ out.op = "builder"
    /\ Len(out.val.added) < MaxAdds
    /\ out' = [out EXCEPT !.val = [builder |-> PackBuilder_add(out.val.builder, chunk),
                                   added |-> Append(out.val.added, chunk)]]
    /\ UNCHANGED <<backend, repo, call, ret, run, faults>>

\* PackBuilder::finalize, then PackFile::parse of the bytes
PackFinalize ==
    /\ out.op = "builder"
    /\ LET pack == finalize(out.val.builder)
       IN  out' = [op |-> "finalize", status |-> "ok", refs |-> <<>>,
                   val |-> [added |-> out.val.added, pack |-> pack,
                            parsed |-> PackFile_parse(pack.data)]]
    /\ UNCHANGED <<backend, repo, call, ret, run, faults>>

\* PackFile::extract_blob on the parsed pack
ExtractBlob(hash) ==
    /\ out.op = "finalize"
    /\ out.val.parsed.status = "ok"
    /\ out' = [op |-> "extract_blob", status |-> "ok", refs |-> <<>>,
               val |-> [added |-> out.val.added, pack |-> out.val.pack,
                        parsed |-> out.val.parsed, hash |-> hash,
                        blob |-> extract_blob(out.val.parsed, hash)]]
    /\ UNCHANGED <<backend, repo, call, ret, run, faults>>

(* backup.rs: sanitize_filename.  A name is a sequence of characters; "ue"  *)
(* stands for a character of two bytes, "TAB" and "NUL" for control         *)
(* characters.                                                              *)

NAME_LIMIT == 3      \* bytes kept of a name

NameChars == {"a", ".", " ", "/", "TAB", "ue"}

Names == UNION {[1..n -> NameChars] : n \in 0..MaxName}

Unsafe == {"/", "\\", ":", "*", "?", "\"", "<", ">", "|", "NUL"}

is_control(c) == c \in {"NUL", "TAB"}

Utf8Len(c) == IF c = "ue" THEN 2 ELSE 1

RECURSIVE ByteLen(_)
ByteLen(s) == IF s = <<>> THEN 0 ELSE Utf8Len(s[1]) + ByteLen(Tail(s))

MapChar(c) == IF c \in Unsafe THEN "_" ELSE IF is_control(c) THEN "_" ELSE c

RECURSIVE TrimStart(_)
TrimStart(s) ==
    IF s # <<>> /\ s[1] \in {".", " "} THEN TrimStart(Tail(s)) ELSE s

RECURSIVE TrimEnd(_)
TrimEnd(s) ==
    IF s # <<>> /\ s[Len(s)] \in {".", " "}
    THEN TrimEnd(SubSeq(s, 1, Len(s) - 1)) ELSE s

trim_matches(s) == TrimEnd(TrimStart(s))

\* str::is_char_boundary: the byte index is the start of a character or the end
is_char_boundary(s, index) ==
    \E n \in 0..Len(s) : ByteLen(SubSeq(s, 1, n)) = index

RECURSIVE BackToBoundary(_, _)
BackToBoundary(s, end) ==
    IF ~is_char_boundary(s, end) /\ end > 0 THEN BackToBoundary(s, end - 1) ELSE end

\* s[..end] for a byte index on a character boundary
BytePrefix(s, end) ==
    SubSeq(s, 1, CHOOSE n \in 0..Len(s) : ByteLen(SubSeq(s, 1, n)) = end)

sanitize_filename(name) ==
    LET sanitized == [i \in 1..Len(name) |-> MapChar(name[i])]
        trimmed == trim_matches(sanitized)
    IN  IF ByteLen(trimmed) > NAME_LIMIT
        THEN BytePrefix(trimmed, BackToBoundary(trimmed, NAME_LIMIT))
        ELSE trimmed

Sanitize(name) ==
    /\ out.op = "none"
    /\ out' = [op |-> "sanitize_filename", status |-> "ok", refs |-> <<>>,
               val |-> [name |-> name, result |-> sanitize_filename(name)]]
    /\ UNCHANGED <<backend, repo, call, ret, run, faults>>

(* crypto.rs: the cipher and the key derivation are ideal.  A key is a      *)
(* record; the derived key is the pair (passphrase, salt), so two           *)
(* passphrases or two salts never derive the same key.  A sealed box opens  *)
(* under the key and the nonce it was sealed with and under no other.  An   *)
(* encrypted message is the sequence nonce bytes \o <<sealed box>>.         *)

NONCE_LEN == 2       \* bytes of a nonce

Passphrases == {"correct", "wrong"}
Salts == {"s1", "s2"}
MasterKeys == {"k1", "k2"}
NonceIds == {"n1", "n2"}
Messages == {<<>>, <<1>>, <<1, 0>>}

NoKey == [kind |-> "none", v |-> "", s |-> ""]

MasterKey(id) == [kind |-> "master", v |-> id, s |-> ""]

\* Argon2::default().hash_password_into
Argon2(passphrase, salt) == [kind |-> "derived", v |-> passphrase, s |-> salt]

\* Aes256Gcm::generate_nonce: the bytes of the nonce drawn
NonceBytes(id) ==
    [i \in 1..NONCE_LEN |->
        [sealed |-> FALSE, n |-> id, nonce |-> <<>>, key |-> NoKey, pt |-> <<>>]]

\* Aead::encrypt: ciphertext and tag
AeadEncrypt(key, nonce, plaintext) ==
    <<[sealed |-> TRUE, n |-> "", nonce |-> nonce, key |-> key, pt |-> plaintext]>>

\* mutant: the tag is not verified
AeadDecrypt_unverified(key, nonce, ciphertext) ==
    IF Len(ciphertext) = 1 /\ ciphertext[1].sealed
    THEN [status |-> "ok", val |-> ciphertext[1].pt]
    ELSE [status |-> "err", val |-> <<>>]

\* Aead::decrypt
AeadDecrypt(key, nonce, ciphertext) ==
    IF /\ Len(ciphertext) = 1
       /\ ciphertext[1].sealed
       /\ ciphertext[1].key = key
       /\ ciphertext[1].nonce = nonce
    THEN [status |-> "ok", val |-> ciphertext[1].pt]
    ELSE [status |-> "err", val |-> <<>>]

CryptoEngine_new(master_key) == [cipher |-> master_key]

encrypt(engine, plaintext, n) ==
    NonceBytes(n) \o AeadEncrypt(engine.cipher, NonceBytes(n), plaintext)

decrypt(engine, data) ==
    IF Len(data) < NONCE_LEN THEN [status |-> "too_short", val |-> <<>>]
    ELSE AeadDecrypt(engine.cipher, SubSeq(data, 1, NONCE_LEN),
                     SubSeq(data, NONCE_LEN + 1, Len(data)))

create_key_config(passphrase, salt, master_key, n) ==
    [config |-> [salt |-> salt, nonce |-> NonceBytes(n),
                 encrypted_master_key |->
                     AeadEncrypt(Argon2(passphrase, salt), NonceBytes(n), master_key)],
     master_key |-> master_key]

\* mutant: the salt of the config is not used
decrypt_master_key_unsalted(passphrase, config) ==
    AeadDecrypt(Argon2(passphrase, ""), config.nonce, config.encrypted_master_key)

\* the opened box is the 32-byte master key that create_key_config sealed
decrypt_master_key(passphrase, config) ==
    AeadDecrypt(Argon2(passphrase, config.salt), config.nonce,
                config.encrypted_master_key)

from_passphrase(passphrase, config) ==
    LET master_key == decrypt_master_key(passphrase, config)
    IN  IF master_key.status = "ok"
        THEN [status |-> "ok", engine |-> CryptoEngine_new(master_key.val)]
        ELSE [status |-> "err", engine |-> CryptoEngine_new(NoKey)]

\* inputs of decrypt that are no output of encrypt under the key: the
\* prefixes shorter than a nonce, the message without its sealed box, the
\* message under another nonce, the message of an engine with another key
Forged(master_key, m, n) ==
    LET data == encrypt(CryptoEngine_new(master_key), m, n)
    IN  {SubSeq(data, 1, k) : k \in 0..NONCE_LEN}
            \cup {NonceBytes(x) \o SubSeq(data, NONCE_LEN + 1, Len(data)) :
                    x \in NonceIds \ {n}}
            \cup {encrypt(CryptoEngine_new(MasterKey(k)), m, n) :
                    k \in {k \in MasterKeys : MasterKey(k) # master_key}}

CreateKeyConfig(passphrase, salt, k, n) ==
    /\ out.op = "none"
    /\ LET r == create_key_config(passphrase, salt, MasterKey(k), n)
       IN  out' = [op |-> "create_key_config", status |-> "ok", refs |-> <<>>,
                   val |-> [passphrase |-> passphrase, config |-> r.config,
                            master_key |-> r.master_key]]
    /\ UNCHANGED <<backend, repo, call, ret, run, faults>>

\* CryptoEngine::new(&master_key).encrypt(m)
Encrypt(m, n) ==
    /\ out.op = "create_key_config"
    /\ out' = [op |-> "encrypt", status |-> "ok", refs |-> <<>>,
               val |-> [passphrase |-> out.val.passphrase,
                        config |-> out.val.config,
                        master_key |-> out.val.master_key,
                        m |-> m, n |-> n,
                        data |-> encrypt(CryptoEngine_new(out.val.master_key), m, n)]]
    /\ UNCHANGED <<backend, repo, call, ret, run, faults>>

\* decrypt of the message under the engine of the master key and under the
\* engine of from_passphrase
Decrypt ==
    /\ out.op = "encrypt"
    /\ LET engine2 == from_passphrase(out.val.passphrase, out.val.config)
       IN  out' = [op |-> "decrypt", status |-> "ok", refs |-> <<>>,
                   val |-> [m |-> out.val.m,
                            by_key |-> decrypt(CryptoEngine_new(out.val.master_key),
                                               out.val.data),
                            engine2 |-> engine2.status,
                            by_passphrase |-> IF engine2.status = "ok"
                                              THEN decrypt(engine2.engine, out.val.data)
                                              ELSE [status |-> "no_engine", val |-> <<>>]]]
    /\ UNCHANGED <<backend, repo, call, ret, run, faults>>

\* CryptoEngine::from_passphrase with a passphrase of the caller's choice
FromPassphrase(passphrase) ==
    /\ out.op = "create_key_config"
    /\ out' = [op |-> "from_passphrase", status |-> "ok", refs |-> <<>>,
               val |-> [created_with |-> out.val.passphrase,
                        passphrase |-> passphrase,
                        result |-> from_passphrase(passphrase, out.val.config).status]]
    /\ UNCHANGED <<backend, repo, call, ret, run, faults>>

\* decrypt of an input that encrypt did not produce under the key
DecryptForged ==
    /\ out.op = "encrypt"
    /\ \E data \in Forged(out.val.master_key, out.val.m, out.val.n) :
           out' = [op |-> "decrypt_forged", status |-> "ok", refs |-> <<>>,
                   val |-> [data |-> data,
                            result |-> decrypt(CryptoEngine_new(out.val.master_key),
                                               data)]]
    /\ UNCHANGED <<backend, repo, call, ret, run, faults>>

----------------------------------------------------------------------------
(* backup.rs with the Graph producer (graph/src/onedrive.rs, exchange.rs,  *)
(* delta.rs): the backup runs of one user, one process per run.  A         *)
(* continuation token is a number; the producer hands out a token that     *)
(* differs from every token handed out before.                             *)

MaxRuns == 2         \* snapshots that the backup runs may write

UserId == "id1"               \* user.id
Upn == "u1"                   \* user.user_principal_name

\* DeltaState::key: format!("{service}:{user}:{resource}")
DeltaState_key(service, user, resource) == <<service, ":", user, ":">> \o resource

\* the resources a run enumerates, in the order of the code: the drive; the
\* mail folder f1, the calendar and the contact folder c1
Resources(service) ==
    IF service = "onedrive" THEN << <<"drive">> >>
    ELSE << <<"mail", ":", "f1">>, <<"calendar">>, <<"contacts", ":", "c1">> >>

\* The items the producer returns.  live: the item is a file (OneDrive), is
\* not removed (Exchange); size: item.size.unwrap_or(0) of a drive item;
\* data: the bytes its download returns.
ItemA == [id |-> "a", live |-> TRUE, size |-> 2, data |-> <<1>>]
ItemB == [id |-> "b", live |-> TRUE, size |-> 0, data |-> <<>>]
ItemX == [id |-> "x", live |-> FALSE, size |-> 0, data |-> <<>>]

\* what one delta query returns: a drive without files or with two files, a
\* folder with one removed or one live item
ItemLists(service) ==
    IF service = "onedrive" THEN {<<ItemX>>, <<ItemA, ItemB>>}
    ELSE {<<ItemX>>, <<ItemA>>}

NoTokens == [k \in {} |-> 0]

\* BackupStats::default()
NoStats ==
    [total_items |-> 0, new_items |-> 0, unchanged_items |-> 0,
     total_bytes |-> 0, new_bytes |-> 0, deduplicated_bytes |-> 0]

\* mutant: the token of some key of the previous snapshot
PrevToken_any(prev, key) ==
    IF prev = None THEN None
    ELSE IF DOMAIN prev[1].delta_tokens = {} THEN None
    ELSE Some(prev[1].delta_tokens[CHOOSE k \in DOMAIN prev[1].delta_tokens : TRUE])

\* prev.and_then(|s| s.delta_tokens.get(&delta_key))
PrevToken(prev, key) ==
    IF prev = None THEN None
    ELSE IF key \in DOMAIN prev[1].delta_tokens
         THEN Some(prev[1].delta_tokens[key])
         ELSE None

\* delta_tokens.insert(delta_key, token)
InsertToken(tokens, key, token) ==
    [k \in DOMAIN tokens \cup {key} |-> IF k = key THEN token ELSE tokens[k]]

\* the tokens of the stored snapshots
StoredTokens(be) ==
    UNION {{Snapshot_from_bytes(be[snapshot_path(id)]).delta_tokens[k] :
               k \in DOMAIN Snapshot_from_bytes(be[snapshot_path(id)]).delta_tokens} :
           id \in SnapIds(be)}

\* @odata.deltaLink of the last page: a token never handed out before
FreshToken(be, tokens) ==
    1 + SetMax(StoredTokens(be) \cup {tokens[k] : k \in DOMAIN tokens})

\* stats.total_items += 1; stats.total_bytes += size
StatsTotal(stats, size) ==
    [stats EXCEPT !.total_items = @ + 1, !.total_bytes = @ + size]

\* stats.new_items += 1; stats.new_bytes += size
StatsNew(stats, size) ==
    [stats EXCEPT !.new_items = @ + 1, !.new_bytes = @ + size]

\* mutant: an item without chunks is not counted as unchanged
StatsUnchanged_none(stats, size) == stats

\* stats.unchanged_items += 1; stats.deduplicated_bytes += size
StatsUnchanged(stats, size) ==
    [stats EXCEPT !.unchanged_items = @ + 1, !.deduplicated_bytes = @ + size]

\* backup::run returns: the process ends
RunReturns(status) ==
    /\ run' = NoRun
    /\ repo' = NoRepo
    /\ ret' = [NoRet EXCEPT !.op = "backup", !.status = status]

\* the resource after the current one, or the snapshot when none is left
NextResource(r) ==
    IF r.r < Len(Resources(r.service))
    THEN [r EXCEPT !.r = @ + 1, !.pc = "enumerate", !.queue = <<>>]
    ELSE [r EXCEPT !.pc = "save", !.queue = <<>>]

\* backup::run opens the repository: the first step of a new process
BackupOpen ==
    /\ ~repo.live \/ ret.op = "init"
    /\ RepoOpen("ok")

\* backup_onedrive / backup_exchange from list_users to find_latest_snapshot
DeltaStart(service, ok) ==
    /\ ~run.active
    /\ repo.live
    /\ call.pc = "idle"
    /\ ret.op = "open" /\ ret.status = "ok"
    /\ Cardinality(SnapIds(backend)) < MaxRuns
    /\ out' = NoOut
    /\ UNCHANGED <<backend, call, faults>>
    /\ IF ok
       THEN /\ run' = [active |-> TRUE, service |-> service, nodes |-> <<>>,
                       meta |-> <<>>, pc |-> "enumerate", r |-> 1,
                       prev |-> find_latest_snapshot(backend, "acme", service,
                                                     Some(Upn)),
                       queue |-> <<>>, pending |-> None,
                       delta_tokens |-> NoTokens, stats |-> NoStats,
                       log |-> <<>>, snaps0 |-> SnapIds(backend)]
            /\ UNCHANGED <<repo, ret>>
       ELSE RunReturns("err")

\* The delta query of the current resource: get_drive_delta, or
\* get_mail_folder_delta / get_calendar_delta / get_contacts_delta with the
\* full resync after 410 Gone.  outcome: "ok", "err", "gone_ok", "gone_err".
DeltaEnumerate(outcome, items, with_token) ==
    /\ run.active
    /\ run.pc = "enumerate"
    /\ call.pc = "idle"
    /\ LET resource == Resources(run.service)[run.r]
           delta_key == DeltaState_key(run.service, UserId, resource)
           prev_token == PrevToken(run.prev, delta_key)
           gone == outcome \in {"gone_ok", "gone_err"}
           new_delta == IF with_token
                        THEN Some(FreshToken(backend, run.delta_tokens))
                        ELSE None
           active == SelectSeq(items, LAMBDA i : i.live)
           entry == [resource |-> resource,
                     handed |-> IF gone THEN <<prev_token, None>> ELSE <<prev_token>>,
                     token |-> new_delta,
                     active |-> {active[i].id : i \in 1..Len(active)}]
           r1 == [run EXCEPT !.log = Append(@, entry),
                             !.delta_tokens =
                                 IF new_delta = None THEN @
                                 ELSE InsertToken(@, delta_key, new_delta[1])]
       IN  /\ gone => (run.service = "exchange" /\ prev_token # None)
           /\ items \in ItemLists(run.service)
           /\ run.service = "exchange" => with_token
           /\ out' = NoOut
           /\ UNCHANGED <<backend, call, faults>>
           /\ IF outcome \in {"err", "gone_err"}
              THEN RunReturns("err")
              ELSE IF active # <<>>
              THEN /\ run' = [r1 EXCEPT !.queue = active, !.pc = "items"]
                   /\ UNCHANGED <<repo, ret>>
              ELSE /\ run' = IF run.service = "onedrive"
                             THEN [r1 EXCEPT !.pc = "skip"]
                             ELSE NextResource(r1)
                   /\ UNCHANGED <<repo, ret>>

\* backup_onedrive, no files changed: println and continue; the last user,
\* so the run returns Ok
DeltaSkip ==
    /\ run.active
    /\ run.pc = "skip"
    /\ call.pc = "idle"
    /\ out' = NoOut
    /\ UNCHANGED <<backend, call, faults>>
    /\ RunReturns("ok")

\* the snapshot of the run
RunSnapshot(r, be) ==
    [Snapshot_new(FreshSnapId(be), Now(be), "acme", r.service, Some(Upn))
        EXCEPT !.parent = IF r.prev = None THEN None ELSE Some(r.prev[1].id),
               !.tree = [i \in 1..Len(r.nodes) |->
                            [chunks |-> r.nodes[i], size |-> r.meta[i].size,
                             graph_id |-> r.meta[i].graph_id,
                             resource |-> r.meta[i].resource]],
               !.stats = r.stats,
               !.delta_tokens = r.delta_tokens]

\* mutant: a failed download of a drive item saves what the run has gathered
ItemDownload_saving(ok) ==
    /\ run.active
    /\ run.pc = "items"
    /\ run.queue # <<>>
    /\ run.pending = None
    /\ call.pc = "idle"
    /\ out' = NoOut
    /\ UNCHANGED <<call, faults>>
    /\ LET item == Head(run.queue)
           rest == Tail(run.queue)
       IN  IF ok
           THEN /\ backend' = backend
                /\ UNCHANGED <<repo, ret>>
                /\ run' = [run EXCEPT
                              !.stats = IF run.service = "onedrive"
                                        THEN StatsTotal(@, item.size)
                                        ELSE StatsNew(StatsTotal(@, Len(item.data)),
                                                      Len(item.data)),
                              !.queue = rest,
                              !.pending = Some([id |-> item.id,
                                                size |-> IF run.service = "onedrive"
                                                         THEN item.size
                                                         ELSE Len(item.data),
                                                data |-> item.data])]
           ELSE IF run.service = "onedrive"
           THEN /\ backend' = Backend_write(backend,
                                            snapshot_path(FreshSnapId(backend)),
                                            Snapshot_to_bytes(RunSnapshot(run, backend)))
                /\ RunReturns("err")
           ELSE /\ backend' = backend
                /\ UNCHANGED <<repo, ret>>
                /\ run' = IF rest = <<>> THEN NextResource(run)
                          ELSE [run EXCEPT !.queue = rest]

\* The download of the next item: download_url / download_file, or
\* download_mime / get_event / get_contact.
ItemDownload(ok) ==
    /\ run.active
    /\ run.pc = "items"
    /\ run.queue # <<>>
    /\ run.pending = None
    /\ call.pc = "idle"
    /\ out' = NoOut
    /\ UNCHANGED <<backend, call, faults>>
    /\ LET item == Head(run.queue)
           rest == Tail(run.queue)
       IN  IF run.service = "onedrive"
           THEN IF ok
                THEN /\ run' = [run EXCEPT
                                   !.stats = StatsTotal(@, item.size),
                                   !.queue = rest,
                                   !.pending = Some([id |-> item.id,
                                                     size |-> item.size,
                                                     data |-> item.data])]
                     /\ UNCHANGED <<repo, ret>>
                ELSE RunReturns("err")
           ELSE /\ UNCHANGED <<repo, ret>>
                /\ IF ok
                   THEN run' = [run EXCEPT
                                   !.stats = StatsNew(StatsTotal(@, Len(item.data)),
                                                      Len(item.data)),
                                   !.queue = rest,
                                   !.pending = Some([id |-> item.id,
                                                     size |-> Len(item.data),
                                                     data |-> item.data])]
                   ELSE run' = IF rest = <<>> THEN NextResource(run)
                               ELSE [run EXCEPT !.queue = rest]

\* repo.store_data(&data).await? for the downloaded item
ItemStore ==
    /\ run.active
    /\ run.pc = "items"
    /\ run.pending # None
    /\ Len(run.nodes) = Len(run.meta)
    /\ StoreBegin(run.pending[1].data)

\* store_data returned Ok: the statistics of a drive item, nodes.push
ItemDone ==
    /\ run.active
    /\ run.pc = "items"
    /\ run.pending # None
    /\ Len(run.nodes) = Len(run.meta) + 1
    /\ call.pc = "idle"
    /\ out' = NoOut
    /\ UNCHANGED <<backend, repo, call, ret, faults>>
    /\ LET item == run.pending[1]
           chunk_refs == run.nodes[Len(run.nodes)]
           is_new == chunk_refs # <<>>
           r1 == [run EXCEPT
                     !.stats = IF run.service # "onedrive" THEN @
                               ELSE IF is_new THEN StatsNew(@, item.size)
                               ELSE StatsUnchanged(@, item.size),
                     !.meta = Append(@, [graph_id |-> item.id, size |-> item.size,
                                         resource |-> Resources(run.service)[run.r]]),
                     !.pending = None]
       IN  run' = IF run.queue = <<>> THEN NextResource(r1) ELSE r1

\* repo.save_snapshot(&snapshot).await?, the last user: the run returns
DeltaSave(ok) ==
    /\ run.active
    /\ run.pc = "save"
    /\ call.pc = "idle"
    /\ out' = NoOut
    /\ call' = call
    /\ faults' = (faults \/ ~ok)
    /\ backend' = IF ok
                  THEN LET snapshot == RunSnapshot(run, backend)
                       IN  Backend_write(backend, snapshot_path(snapshot.id),
                                         Snapshot_to_bytes(snapshot))
                  ELSE backend
    /\ RunReturns(IF ok THEN "ok" ELSE "err")

----------------------------------------------------------------------------
(* graph/src/client.rs: GraphClient::get_json and get_bytes.  The call in  *)
(* flight is kept in the variable call; the store takes no part.           *)

MAX_RETRIES == 5

TOO_MANY_REQUESTS == 429
SERVICE_UNAVAILABLE == 503

\* the answers of the service: success, throttling, other failures
Statuses == {200, TOO_MANY_REQUESTS, SERVICE_UNAVAILABLE, 404, 410, 500}

\* the Retry-After header of a throttled answer: absent, unparsable or seconds
RetryAfterHeaders == {None, Some("soon"), Some("1"), Some("3")}

\* StatusCode::is_success
is_success(status) == status >= 200 /\ status < 300

\* status == TOO_MANY_REQUESTS || status == SERVICE_UNAVAILABLE
Throttled(status) == status \in {TOO_MANY_REQUESTS, SERVICE_UNAVAILABLE}

\* mutant: the call gives up when the retries reach MAX_RETRIES
Exceeded_early(retries) == retries >= MAX_RETRIES

\* retries > MAX_RETRIES
Exceeded(retries) == retries > MAX_RETRIES

\* v.parse::<u64>().ok()
parse_u64(v) ==
    IF v = "1" THEN Some(1) ELSE IF v = "3" THEN Some(3) ELSE None

RECURSIVE Pow2(_)
\* 2u64.pow(retries)
Pow2(n) == IF n = 0 THEN 1 ELSE 2 * Pow2(n - 1)

\* headers.get("Retry-After") .. parse::<u64>().ok().unwrap_or(2u64.pow(retries))
RetryAfter(header, retries) ==
    IF header # None /\ parse_u64(header[1]) # None
    THEN parse_u64(header[1])[1]
    ELSE Pow2(retries)

\* get_json(path) / get_bytes(url) is called: let mut retries = 0
ClientCall(kind) ==
    /\ call.pc \in {"idle", "done"}
    /\ ~run.active
    /\ call' = [pc |-> "send", kind |-> kind, retries |-> 0, sent |-> 0,
                statuses |-> <<>>, wait |-> 0, result |-> "none"]
    /\ UNCHANGED <<backend, repo, ret, out, run, faults>>

\* One turn of the loop.  outcome: "token_err" (auth.get_token fails),
\* "send_err" (no answer), "body_err" (the body cannot be read or parsed),
\* "ok".
ClientSend(outcome, status, header) ==
    /\ call.pc = "send"
    /\ UNCHANGED <<backend, repo, ret, out, run, faults>>
    /\ IF outcome = "token_err"
       THEN call' = [call EXCEPT !.pc = "done", !.result = "token error"]
       ELSE IF outcome = "send_err"
       THEN call' = [call EXCEPT !.pc = "done", !.sent = @ + 1,
                                 !.result = "GET failed"]
       ELSE LET c == [call EXCEPT !.sent = @ + 1,
                                  !.statuses = Append(@, status)]
            IN  IF Throttled(status)
                THEN IF Exceeded(call.retries + 1)
                     THEN call' = [c EXCEPT !.pc = "done",
                                            !.retries = @ + 1,
                                            !.result = "max retries exceeded"]
                     ELSE call' = [c EXCEPT !.pc = "sleep",
                                            !.retries = @ + 1,
                                            !.wait = RetryAfter(header,
                                                                call.retries + 1)]
                ELSE IF ~is_success(status)
                THEN call' = [c EXCEPT !.pc = "done", !.result = "returned status"]
                ELSE IF outcome = "body_err"
                THEN call' = [c EXCEPT !.pc = "done", !.result = "body error"]
                ELSE call' = [c EXCEPT !.pc = "done", !.result = "ok"]

\* tokio::time::sleep(Duration::from_secs(retry_after)) is over: continue
ClientWake ==
    /\ call.pc = "sleep"
    /\ call' = [call EXCEPT !.pc = "send", !.wait = 0]
    /\ UNCHANGED <<backend, repo, ret, out, run, faults>>

Next ==
    \/ \E o \in {"ok", "config_write_err", "index_write_err", "to_bytes_err"} : RepoInit(o)
    \/ \E o \in {"ok", "read_err"} : RepoOpen(o)
    \/ \E b \in Inputs : StoreData(b)
    \/ \E ok \in BOOLEAN : PackWrite(ok)
    \/ \E o \in {"ok", "write_err", "to_bytes_err"} : IndexWrite(o)
    \/ Cancel
    \/ ReadData
    \/ Verify

Spec == Init /\ [][Next]_vars

NextBackup ==
    \/ \E o \in {"ok", "config_write_err", "index_write_err", "to_bytes_err"} : RepoInit(o)
    \/ \E o \in {"ok", "read_err"} : RepoOpen(o)
    \/ \E s \in Services : RunStart(s)
    \/ \E b \in Inputs : RunStore(b)
    \/ \E ok \in BOOLEAN : PackWrite(ok)
    \/ \E o \in {"ok", "write_err", "to_bytes_err"} : IndexWrite(o)
    \/ Cancel
    \/ \E ok \in BOOLEAN : RunSave(ok)
    \/ RunEnd

SpecBackup == Init /\ [][NextBackup]_vars

SpecStores == InitStores /\ [][Next]_vars

NextRepo ==
    \/ \E o \in {"ok", "config_write_err", "index_write_err", "to_bytes_err"} : RepoInit(o)
    \/ \E o \in {"ok", "read_err"} : RepoOpen(o)
    \/ \E b \in Items : StoreData(b)
    \/ \E ok \in BOOLEAN : PackWrite(ok)
    \/ \E o \in {"ok", "write_err", "to_bytes_err"} : IndexWrite(o)
    \/ Cancel
    \/ ReadData
    \/ Verify
    \/ \E s \in SnapshotInputs, ok \in BOOLEAN : SaveSnapshot(s, ok)
    \/ ListSnapshots

SpecRepo == Init /\ [][NextRepo]_vars

NextRead ==
    \/ \E o \in {"ok", "config_write_err", "index_write_err", "to_bytes_err"} : RepoInit(o)
    \/ \E o \in {"ok", "read_err"} : RepoOpen(o)
    \/ \E b \in Items : StoreData(b)
    \/ \E ok \in BOOLEAN : PackWrite(ok)
    \/ \E o \in {"ok", "write_err", "to_bytes_err"} : IndexWrite(o)
    \/ Cancel
    \/ \E refs \in RefLists : ReadRefs(refs)

SpecRead == Init /\ [][NextRead]_vars

NextSnap ==
    \/ \E o \in {"ok", "config_write_err", "index_write_err", "to_bytes_err"} : RepoInit(o)
    \/ \E o \in {"ok", "read_err"} : RepoOpen(o)
    \/ \E s \in SnapshotInputs, ok \in BOOLEAN : SaveSnapshot(s, ok)
    \/ ListSnapshots
    \/ \E q \in Queries : GetSnapshot(q)
    \/ \E t \in QueryTenants, s \in Services, u \in {None, Some("u1")} :
           FindLatest(t, s, u)

SpecSnap == Init /\ [][NextSnap]_vars

NextPure ==
    \/ \E b \in ByteSeqs : Chunk(b)
    \/ PackNew
    \/ \E d \in PackBlobs : PackAdd(ChunkOf(d))
    \/ PackFinalize
    \/ \E h \in QueryHashes : ExtractBlob(h)
    \/ \E name \in Names : Sanitize(name)
    \/ \E p \in Passphrases, s \in Salts, k \in MasterKeys, n \in NonceIds :
           CreateKeyConfig(p, s, k, n)
    \/ \E m \in Messages, n \in NonceIds : Encrypt(m, n)
    \/ Decrypt
    \/ \E p \in Passphrases : FromPassphrase(p)
    \/ DecryptForged

SpecPure == Init /\ [][NextPure]_vars

NextChunk ==
    \/ \E o \in {"ok", "config_write_err", "index_write_err", "to_bytes_err"} : RepoInit(o)
    \/ \E o \in {"ok", "read_err"} : RepoOpen(o)
    \/ \E b \in Items : StoreData(b)
    \/ \E ok \in BOOLEAN : PackWrite(ok)
    \/ \E o \in {"ok", "write_err", "to_bytes_err"} : IndexWrite(o)
    \/ Cancel
    \/ \E b \in Items : Chunk(b)

SpecChunk == Init /\ [][NextChunk]_vars

\* one Repository handle, from init to the end of the process; its
\* store_data calls run to their return
NextHandle ==
    \/ RepoInit("ok")
    \/ \E b \in Items : StoreData(b)
    \/ \E ok \in BOOLEAN : PackWrite(ok)
    \/ \E o \in {"ok", "write_err", "to_bytes_err"} : IndexWrite(o)
    \/ ReadData

SpecHandle == Init /\ [][NextHandle]_vars

\* the backup runs of one user against one store
NextDelta ==
    \/ RepoInit("ok")
    \/ BackupOpen
    \/ \E s \in Services, ok \in BOOLEAN : DeltaStart(s, ok)
    \/ \E o \in {"ok", "err", "gone_ok", "gone_err"},
          items \in ItemLists("onedrive") \cup ItemLists("exchange"),
          t \in BOOLEAN : DeltaEnumerate(o, items, t)
    \/ DeltaSkip
    \/ \E ok \in BOOLEAN : ItemDownload(ok)
    \/ ItemStore
    \/ ItemDone
    \/ \E ok \in BOOLEAN : PackWrite(ok)
    \/ \E o \in {"ok", "write_err"} : IndexWrite(o)
    \/ \E ok \in BOOLEAN : DeltaSave(ok)

SpecDelta == Init /\ [][NextDelta]_vars

\* the calls of one GraphClient
NextClient ==
    \/ \E kind \in {"get_json", "get_bytes"} : ClientCall(kind)
    \/ \E o \in {"token_err", "send_err", "body_err", "ok"}, status \in Statuses,
          h \in RetryAfterHeaders : ClientSend(o, status, h)
    \/ ClientWake

SpecClient == Init /\ [][NextClient]_vars

\* every request is answered or fails (the HTTP client has a timeout of 120
\* seconds) and every sleep ends
SpecClientLive ==
    /\ SpecClient
    /\ WF_vars(\E o \in {"token_err", "send_err", "body_err", "ok"},
                  status \in Statuses, h \in RetryAfterHeaders :
                      ClientSend(o, status, h))
    /\ WF_vars(ClientWake)

----------------------------------------------------------------------------
(* Properties *)

StoredIndex ==
    IF Backend_exists(backend, INDEX_PATH)
    THEN Index_from_bytes(backend[INDEX_PATH])
    ELSE Index_new

\* the entry (hash -> location) names a pack of the store that holds the blob
\* with that hash at [offset, offset + length)
Resolves(be, hash, location) ==
    /\ Backend_exists(be, pack_path(location.pack_id))
    /\ location.offset + location.length <= Len(be[pack_path(location.pack_id)])
    /\ hash_blake3(SubSeq(be[pack_path(location.pack_id)], location.offset + 1,
                          location.offset + location.length)) = hash

\* C1: in every flush of store_data the write of packs/<id> completes before
\* the in-memory index receives an entry of that pack, and index.json is
\* rewritten only after both.
C1_PackWrittenBeforeIndexed ==
    call.pc # "idle" =>
        LET id == call.pack.header.id
        IN  /\ (\E h \in DOMAIN repo.index : repo.index[h].pack_id = id)
                  => Backend_exists(backend, pack_path(id))
            /\ (\E h \in DOMAIN StoredIndex : StoredIndex[h].pack_id = id)
                  => /\ Backend_exists(backend, pack_path(id))
                     /\ \E h \in DOMAIN repo.index : repo.index[h].pack_id = id

\* C2: when the write of a pack or of index.json fails during store_data, the
\* call returns the error and the in-memory index holds exactly the entries it
\* held before the failing flush began.
C2_FailedFlushLeavesIndex ==
    [][(/\ call.pc \in {"pack_write", "index_write"}
        /\ call'.pc = "idle"
        /\ faults'
        /\ repo'.live)
       => (ret'.op = "store_data" /\ ret'.status = "err"
           /\ repo'.index = call.flush0)]_vars

\* C3: between Coordinator operations every entry (hash -> loc) of the
\* in-memory index names a pack that exists in the store and whose bytes at
\* [loc.offset, loc.offset + loc.length) are the blob with that hash.
C3_IndexEntriesResolve ==
    (repo.live /\ call.pc = "idle") =>
        \A h \in DOMAIN repo.index : Resolves(backend, h, repo.index[h])

C6_Dedup ==
    [][(/\ call.pc = "idle"
        /\ ret.op = "store_data" /\ ret.status = "ok"
        /\ \/ call'.pc # "idle" /\ call'.data = ret.data
           \/ call'.pc = "idle" /\ ret'.op = "store_data" /\ ret'.again)
       => (/\ call'.pc = "idle"
           /\ ret'.status = "ok"
           /\ ret'.data = ret.data
           /\ ret'.refs = ret.refs
           /\ PackIds(backend') = PackIds(backend)
           /\ repo'.index = repo.index)]_vars

C6_Witness ==
    /\ call.pc = "idle"
    /\ ret.op = "store_data" /\ ret.status = "ok" /\ ret.again
    /\ Len(ret.refs) >= 2
    /\ PackIds(backend) # {}

\* C7: after init and any sequence of Coordinator operations, failed or not,
\* verify() on the handle returns a result whose errors list is empty.
C7_VerifyClean ==
    out.op = "verify" => out.val.errors = <<>>

\* C8: verify() appends exactly one error (blob, pack) for each in-memory index
\* entry whose pack_id is not among the keys listed under packs/, appends no
\* other error, and its result is OK iff no such entry exists.
C8_VerifyErrors ==
    out.op = "verify" =>
        LET errs == out.val.errors
            Missing == {h \in DOMAIN repo.index :
                           repo.index[h].pack_id \notin PackIds(backend)}
        IN  /\ \A h \in Missing :
                   Cardinality({i \in 1..Len(errs) : errs[i].blob = h}) = 1
            /\ \A i \in 1..Len(errs) :
                   /\ errs[i].blob \in Missing
                   /\ errs[i].pack = repo.index[errs[i].blob].pack_id
            /\ is_ok(out.val) <=> Missing = {}

C8_Witness ==
    /\ out.op = "verify"
    /\ Len(out.val.errors) >= 2
    /\ \E h \in DOMAIN repo.index : repo.index[h].pack_id \in PackIds(backend)

C10_StoredIndexIsIndex ==
    (/\ repo.live /\ call.pc = "idle"
     /\ ret.op \in {"init", "store_data"} /\ ret.status = "ok")
       => StoredIndex = repo.index

Located(index, be, hash) ==
    SubSeq(be[pack_path(index[hash].pack_id)], index[hash].offset + 1,
           index[hash].offset + index[hash].length)

RECURSIVE ConcatLocated(_, _, _)
ConcatLocated(index, be, refs) ==
    IF refs = <<>> THEN <<>>
    ELSE Located(index, be, refs[1].hash) \o ConcatLocated(index, be, Tail(refs))

\* C13: read_data(refs) fails with MissingBlob and returns no bytes if the hash
\* of any ref, at any position, is absent from the index; otherwise its result
\* is the concatenation, in ref order, of the blobs the index locates.
C13_ReadDataMissingBlob ==
    out.op = "read_data" =>
        IF \E i \in 1..Len(out.refs) : ~Index_contains(repo.index, out.refs[i].hash)
        THEN out.status = "missing_blob" /\ out.val = <<>>
        ELSE /\ out.status = "ok"
             /\ \A i \in 1..Len(out.refs) :
                    Backend_exists(backend, pack_path(repo.index[out.refs[i].hash].pack_id))
             /\ out.val = ConcatLocated(repo.index, backend, out.refs)

\* the snapshot stored under an id
Stored(id) == Snapshot_from_bytes(backend[snapshot_path(id)])

\* C14: for every snapshot S written by save_snapshot, whatever other snapshots
\* are in the store, a later get_snapshot called with the first characters of
\* S.id (the short id) returns a snapshot equal to S.
C14_GetByShortId ==
    out.op = "get_snapshot" =>
        \A id \in SnapIds(backend) :
            out.val.id = short_id(id)
               => (out.status = "ok" /\ out.val.found = Some(Stored(id)))

\* C15: get_snapshot(s) returns the first listed snapshot whose file name
\* (<id>.json) contains s, and fails with NotFound when no snapshot file name
\* contains s.
C15_GetFirstFileNameMatch ==
    out.op = "get_snapshot" =>
        LET hits == {id \in SnapIds(backend) : Contains(FileName(id), out.val.id)}
        IN  IF hits = {}
            THEN out.status = "not_found" /\ out.val.found = None
            ELSE /\ out.status = "ok"
                 /\ out.val.found =
                        Some(Stored(CHOOSE id \in hits : \A j \in hits : id <= j))

\* C16: list_snapshots returns every snapshot stored under snapshots/*.json
\* exactly once, ordered by timestamp descending.
C16_ListSortedComplete ==
    out.op = "list_snapshots" =>
        LET l == out.val
        IN  /\ out.status = "ok"
            /\ Len(l) = Cardinality(SnapIds(backend))
            /\ \A id \in SnapIds(backend) :
                   Cardinality({i \in 1..Len(l) : l[i] = Stored(id)}) = 1
            /\ \A i \in 1..(Len(l) - 1) : l[i].timestamp >= l[i + 1].timestamp

C16_Witness ==
    /\ out.op = "list_snapshots"
    /\ Len(out.val) >= 2
    /\ out.val[1].timestamp > out.val[2].timestamp
    /\ out.val[1].id > out.val[2].id

\* C17: find_latest_snapshot(tenant, service, user) returns a snapshot of
\* maximal timestamp among the stored snapshots whose tenant, service and user
\* all equal the arguments (user None matches only snapshots without a user),
\* and returns None iff no stored snapshot matches.
C17_FindLatest ==
    out.op = "find_latest_snapshot" =>
        LET q == out.val
            M == {id \in SnapIds(backend) :
                     /\ Stored(id).tenant = q.tenant
                     /\ Stored(id).service = q.service
                     /\ Stored(id).user = q.user}
        IN  /\ out.status = "ok"
            /\ q.found = None <=> M = {}
            /\ q.found # None =>
                   \E id \in M : /\ q.found = Some(Stored(id))
                                  /\ \A j \in M : Stored(j).timestamp <= Stored(id).timestamp

C17_Witness ==
    /\ out.op = "find_latest_snapshot"
    /\ out.val.found # None
    /\ \E id \in SnapIds(backend) :
           /\ Stored(id).tenant = out.val.tenant
           /\ Stored(id).service = out.val.service
           /\ Stored(id).user = out.val.user
           /\ Stored(id).timestamp < out.val.found[1].timestamp

C19_SnapshotsImmutable ==
    [][\A k \in DOMAIN backend :
          k[1] = SNAPSHOTS_DIR => (k \in DOMAIN backend' /\ backend'[k] = backend[k])]_vars

\* the hashes of the manifests of the packs with ids from `id` on, pack after
\* pack in the order the packs were written
RECURSIVE ManifestHashes(_, _)
ManifestHashes(be, id) ==
    IF ~Backend_exists(be, pack_path(id)) THEN <<>>
    ELSE LET blobs == PackFile_parse(be[pack_path(id)]).header.blobs
         IN  [i \in 1..Len(blobs) |-> blobs[i].hash] \o ManifestHashes(be, id + 1)

\* the position at which h first occurs in the sequence (0: nowhere)
FirstPos(seq, h) ==
    IF \E i \in 1..Len(seq) : seq[i] = h
    THEN CHOOSE i \in 1..Len(seq) : seq[i] = h /\ \A j \in 1..(i - 1) : seq[j] # h
    ELSE 0

\* w is h with some elements left out
RECURSIVE IsSubSeq(_, _)
IsSubSeq(w, h) ==
    IF w = <<>> THEN TRUE
    ELSE IF h = <<>> THEN FALSE
    ELSE IF w[1] = h[1] THEN IsSubSeq(Tail(w), Tail(h))
    ELSE IsSubSeq(w, Tail(h))

\* the manifests written from pack `first` on list chunks of `data` in the
\* order of the input, distinct chunks in the order of their first appearance
InInputOrder(data, first) ==
    LET h == [i \in 1..Len(Chunker_chunk(data)) |-> Chunker_chunk(data)[i].hash]
        w == ManifestHashes(backend, first)
    IN  /\ IsSubSeq(w, h)
        /\ \A i \in 1..Len(w) : \A j \in (i + 1)..Len(w) :
               (FirstPos(w, w[i]) = i /\ FirstPos(w, w[j]) = j)
                  => FirstPos(h, w[i]) < FirstPos(h, w[j])

\* C20: store_data(b) returns one ChunkRef per chunk of b in input order (the
\* first offset is 0, each next offset is the previous offset plus length, the
\* lengths sum to len(b)), and the chunks it writes appear in the pack
\* manifests, taking packs in the order they were written, in the order they
\* first appear in b.
C20_RefsAndPacksInInputOrder ==
    /\ (ret.op = "store_data" /\ ret.status = "ok" /\ call.pc = "idle") =>
          LET refs == ret.refs
              n == Len(refs)
          IN  /\ n = Len(Chunker_chunk(ret.data))
              /\ \A i \in 1..n :
                     /\ refs[i].offset = IF i = 1 THEN 0
                                         ELSE refs[i - 1].offset + refs[i - 1].length
                     /\ refs[i].hash =
                            hash_blake3(SubSeq(ret.data, refs[i].offset + 1,
                                               refs[i].offset + refs[i].length))
              /\ Len(ret.data) = IF n = 0 THEN 0
                                  ELSE refs[n].offset + refs[n].length
              /\ InInputOrder(ret.data, ret.first)
    /\ call.pc # "idle" => InInputOrder(call.data, call.first)

C20_Witness ==
    /\ ret.op = "store_data" /\ ret.status = "ok" /\ call.pc = "idle"
    /\ Len(ret.refs) >= 2
    /\ Backend_exists(backend, pack_path(ret.first + 1))
    /\ Len(ManifestHashes(backend, ret.first)) >= 2
    /\ \E i \in 1..Len(ret.refs) : ret.refs[i].hash # ret.refs[1].hash

----------------------------------------------------------------------------
(* Properties of the chunker, the pack format, the file names and the keys *)

RECURSIVE ConcatData(_)
ConcatData(cs) == IF cs = <<>> THEN <<>> ELSE cs[1].data \o ConcatData(Tail(cs))

\* the sum of the lengths of the first n chunks
RECURSIVE SumLengths(_, _)
SumLengths(cs, n) == IF n = 0 THEN 0 ELSE SumLengths(cs, n - 1) + cs[n].length

\* C21: the chunks of Chunker::chunk(b) cover b exactly once: their data
\* concatenated in order is b, the offset of each chunk is the sum of the
\* lengths of the chunks before it, and the lengths sum to the length of b.
C21_ChunksCoverInput ==
    out.op = "chunk" =>
        LET b == out.val.data
            cs == out.val.chunks
        IN  /\ ConcatData(cs) = b
            /\ \A i \in 1..Len(cs) :
                   /\ cs[i].offset = SumLengths(cs, i - 1)
                   /\ cs[i].length = Len(cs[i].data)
            /\ SumLengths(cs, Len(cs)) = Len(b)

C21_Witness == out.op = "chunk" /\ Len(out.val.chunks) >= 3

C23_SubMinSingleChunk ==
    out.op = "chunk" =>
        LET b == out.val.data
            cs == out.val.chunks
        IN  /\ Len(b) < MIN_CHUNK => (Len(cs) = 1 /\ cs[1].length = Len(b))
            /\ \A i \in 1..(Len(cs) - 1) :
                   MIN_CHUNK <= cs[i].length /\ cs[i].length <= MAX_CHUNK

\* the sum of the lengths of the data of the first n chunks added
RECURSIVE SumData(_, _)
SumData(added, n) == IF n = 0 THEN 0 ELSE SumData(added, n - 1) + Len(added[n].data)

\* C24: after any sequence of PackBuilder::add calls and finalize, the
\* manifest lists one descriptor per added chunk in insertion order, each
\* offset is the sum of the lengths of the chunks added before (the first is
\* 0), and the pack data at [offset, offset + length) is the chunk's bytes.
C24_ManifestLaysOutChunks ==
    out.op = "finalize" =>
        LET added == out.val.added
            pack == out.val.pack
            blobs == pack.header.blobs
        IN  /\ Len(blobs) = Len(added)
            /\ \A i \in 1..Len(blobs) :
                   /\ blobs[i].hash = added[i].hash
                   /\ blobs[i].offset = SumData(added, i - 1)
                   /\ SubSeq(pack.data, blobs[i].offset + 1,
                             blobs[i].offset + blobs[i].length) = added[i].data

DistinctContent(added) ==
    \A i, j \in 1..Len(added) : added[i].data = added[j].data => i = j

\* C25: for a pack built from chunks of distinct content, parse of the
\* finalized bytes recovers the manifest, extract_blob(h) returns the bytes
\* of the added chunk with hash h, and extract_blob of a hash that was never
\* added returns None.
C25_ParseExtractRoundTrip ==
    (out.op = "extract_blob" /\ DistinctContent(out.val.added)) =>
        LET added == out.val.added
            hits == {i \in 1..Len(added) : added[i].hash = out.val.hash}
        IN  /\ out.val.parsed.status = "ok"
            /\ out.val.parsed.header = out.val.pack.header
            /\ \A i \in hits :
                   out.val.blob = [status |-> "some", val |-> added[i].data]
            /\ hits = {} => out.val.blob.status = "none"

\* C26: the output of sanitize_filename holds none of / \ : * ? " < > | NUL
\* nor a control character, neither starts nor ends with '.' or a space, and
\* is at most NAME_LIMIT bytes long, a prefix of whole characters.
C26_SanitizedName ==
    out.op = "sanitize_filename" =>
        LET r == out.val.result
        IN  /\ \A i \in 1..Len(r) : r[i] \notin Unsafe /\ ~is_control(r[i])
            /\ r # <<>> => (r[1] \notin {".", " "} /\ r[Len(r)] \notin {".", " "})
            /\ ByteLen(r) <= NAME_LIMIT

\* C27: for (cfg, mk) of create_key_config(pw) and every message m, the
\* ciphertext of the engine built from mk decrypts to m under that engine
\* and under the engine of from_passphrase(pw, cfg).
C27_EncryptDecryptRoundTrip ==
    out.op = "decrypt" =>
        /\ out.val.by_key = [status |-> "ok", val |-> out.val.m]
        /\ out.val.engine2 = "ok"
        /\ out.val.by_passphrase = [status |-> "ok", val |-> out.val.m]

C27_Witness == out.op = "decrypt" /\ Len(out.val.m) = 2

\* C28: from_passphrase(pw2, cfg) with pw2 other than the passphrase cfg was
\* created with returns an error, never an engine; decrypt of an input
\* shorter than the nonce, or whose tag does not verify, returns an error,
\* never a plaintext.
C28_WrongKeyRejected ==
    /\ (out.op = "from_passphrase"
        /\ out.val.passphrase # out.val.created_with) => out.val.result = "err"
    /\ out.op = "decrypt_forged" =>
           /\ out.val.result.status # "ok"
           /\ Len(out.val.data) < NONCE_LEN => out.val.result.status = "too_short"

C28_Witness ==
    out.op = "from_passphrase" /\ out.val.passphrase # out.val.created_with

----------------------------------------------------------------------------
(* Properties of a handle after a failed store_data call *)

\* C29: when store_data(b) returns Ok on a handle on which an earlier
\* store_data call failed with an object-store error, read_data of the
\* returned refs still returns b.
C29_StoreAfterFailureReadsBack ==
    (out.op = "read_data" /\ faults) =>
        (out.status = "ok" /\ out.val = ret.data)

\* the map rebuilt from the store: the packs under packs/ are listed, each
\* is parsed, and every descriptor of its manifest is entered
RECURSIVE RebuildFrom(_, _, _)
RebuildFrom(be, ids, index) ==
    IF ids = {} THEN index
    ELSE LET id == CHOOSE x \in ids : \A y \in ids : x <= y
             pack == PackFile_parse(be[pack_path(id)])
         IN  RebuildFrom(be, ids \ {id},
                         IF pack.status = "ok"
                         THEN AddBlobs(index, id, pack.header.blobs)
                         ELSE index)

RebuiltIndex(be) == RebuildFrom(be, PackIds(be), Index_new)

\* the bytes an entry names, read the way read_data reads them
BytesAt(be, location) ==
    SubSeq(be[pack_path(location.pack_id)], location.offset + 1,
           location.offset + location.length)

\* C30: after any sequence of store_data calls on one handle, the map
\* rebuilt from the manifests of packs/* holds every hash of the in-memory
\* index and resolves it to the same bytes.
C30_IndexRebuildsFromPacks ==
    (repo.live /\ call.pc = "idle") =>
        LET rebuilt == RebuiltIndex(backend)
        IN  \A h \in DOMAIN repo.index :
                /\ h \in DOMAIN rebuilt
                /\ Backend_exists(backend, pack_path(repo.index[h].pack_id))
                /\ BytesAt(backend, rebuilt[h]) = BytesAt(backend, repo.index[h])

----------------------------------------------------------------------------
(* Properties of the packs and of verify *)

\* the manifest of the pack packs/<id> of the store
ManifestOf(be, id) == PackFile_parse(be[pack_path(id)]).header.blobs

\* C31: no chunk hash appears more than once across the manifests of the
\* packs written through one handle, even when the same chunk content occurs
\* several times in the input of one store_data call.
C31_OneBlobOnePack ==
    \A p, q \in UNION {{<<id, i>> : i \in 1..Len(ManifestOf(backend, id))} :
                        id \in PackIds(backend)} :
        ManifestOf(backend, p[1])[p[2]].hash = ManifestOf(backend, q[1])[q[2]].hash
            => p = q

\* the length of the payload of the pack packs/<id>: the object without its
\* manifest and the manifest length
PayloadLen(be, id) ==
    LET data == be[pack_path(id)] IN Len(data) - 1 - data[Len(data)]

\* C32: every pack written by store_data holds at least one blob, its
\* payload without its last blob is smaller than TARGET_PACK_SIZE, so the
\* payload is smaller than TARGET_PACK_SIZE + MAX_CHUNK, and the offset, the
\* length and offset + length of every blob fit in u32: the offsets are the
\* true running sums and the last blob ends at the end of the payload.
C32_PackSizesFitU32 ==
    \A id \in PackIds(backend) :
        LET blobs == ManifestOf(backend, id)
            n == Len(blobs)
            len == PayloadLen(backend, id)
        IN  /\ n >= 1
            /\ len - blobs[n].length < TARGET_PACK_SIZE
            /\ len < TARGET_PACK_SIZE + MAX_CHUNK
            /\ blobs[1].offset = 0
            /\ \A i \in 1..(n - 1) :
                   blobs[i + 1].offset = blobs[i].offset + blobs[i].length
            /\ blobs[n].offset + blobs[n].length = len
            /\ \A i \in 1..n : blobs[i].offset + blobs[i].length < U32_RANGE

C32_Witness ==
    \E id \in PackIds(backend) :
        /\ Len(ManifestOf(backend, id)) >= 2
        /\ PayloadLen(backend, id) > TARGET_PACK_SIZE

\* the store with the content of every pack taken away
Scrub(be) == [k \in DOMAIN be |-> IF k[1] = PACKS_DIR THEN <<>> ELSE be[k]]

\* C33: verify reads no packs/<id> object (its result is the same on a store
\* whose packs have lost their content) and changes neither the object
\* store nor the in-memory index, nor the call in flight or the result of
\* another operation.
C33_VerifyReadsNoPack ==
    [][Verify =>
          /\ backend' = backend
          /\ repo' = repo
          /\ call' = call /\ ret' = ret /\ run' = run
          /\ out'.val = verify(repo.index, Scrub(backend))]_vars

C33_Witness ==
    /\ out.op = "verify"
    /\ PackIds(backend) # {}
    /\ out.val.errors # <<>>
    /\ out.val.snapshots_checked >= 1

----------------------------------------------------------------------------
(* Properties of the backup runs and their continuation tokens *)

\* the token that the next run of the service finds for a resource
NextPrevToken(be, service, resource) ==
    PrevToken(find_latest_snapshot(be, "acme", service, Some(Upn)),
              DeltaState_key(service, UserId, resource))

\* C34: a backup run of a user that fails before save_snapshot (the
\* enumeration, a download or store_data returns an error) writes no
\* snapshot, and the next run of the same tenant, service and user is given
\* the previous continuation tokens that the failed run was given.
C34_FailedRunWritesNoSnapshot ==
    [][(run.active /\ run.pc # "save" /\ ~run'.active /\ ret'.status # "ok") =>
          /\ SnapIds(backend') = run.snaps0
          /\ \A i \in 1..Len(Resources(run.service)) :
                 NextPrevToken(backend', run.service, Resources(run.service)[i])
                     = PrevToken(run.prev,
                                 DeltaState_key(run.service, UserId,
                                                Resources(run.service)[i]))]_vars

\* a run has failed in store_data after an earlier run stored a token
C34_Witness ==
    /\ ~run.active
    /\ ret.op = "store_data"
    /\ ret.status = "err"
    /\ StoredTokens(backend) # {}

\* the stored snapshots of the tenant, the service and the user
MatchingSnapshots(be, service) ==
    {s \in {Snapshot_from_bytes(be[snapshot_path(id)]) : id \in SnapIds(be)} :
        s.tenant = "acme" /\ s.service = service /\ s.user = Some(Upn)}

\* the token under service:user_id:resource in the snapshot of the highest
\* timestamp among them, if there is one
StoredToken(be, service, resource) ==
    LET m == MatchingSnapshots(be, service)
        key == DeltaState_key(service, UserId, resource)
    IN  IF m = {} THEN None
        ELSE LET s == CHOOSE s \in m : \A t \in m : t.timestamp <= s.timestamp
             IN  IF key \in DOMAIN s.delta_tokens
                 THEN Some(s.delta_tokens[key])
                 ELSE None

\* C35 (as amended): the continuation token of the first delta query of a
\* resource in a backup run is exactly the token stored under
\* service:user_id:resource in the highest-timestamp snapshot of the same
\* tenant, service and user, or none when there is no such snapshot or it
\* lacks the key.
C35_FirstQueryGetsStoredToken ==
    run.active =>
        \A i \in 1..Len(run.log) :
            run.log[i].handed[1]
                = StoredToken(backend, run.service, run.log[i].resource)

\* a run has handed a stored token to the producer
C35_Witness ==
    /\ run.active
    /\ \E i \in 1..Len(run.log) : run.log[i].handed[1] # None

\* C35 (as stated): every continuation token handed to the producer for a
\* resource in a backup run is the stored token of that resource.
C35_EveryQueryGetsStoredToken ==
    run.active =>
        \A i \in 1..Len(run.log) :
            \A j \in 1..Len(run.log[i].handed) :
                run.log[i].handed[j]
                    = StoredToken(backend, run.service, run.log[i].resource)

\* C36: a backup run of a user that completes without error writes a
\* snapshot that carries, for each resource it enumerated, the new
\* continuation token the producer returned, so that the following run is
\* given that token.
C36_CompletedRunStoresNewTokens ==
    [][(run.active /\ ~run'.active /\ ret'.op = "backup" /\ ret'.status = "ok") =>
          /\ SnapIds(backend') # run.snaps0
          /\ \A i \in 1..Len(run.log) :
                 run.log[i].token # None =>
                     NextPrevToken(backend', run.service, run.log[i].resource)
                         = run.log[i].token]_vars

\* the snapshot that a step has written
Written(be, be2) == Snapshot_from_bytes(be2[snapshot_path(FreshSnapId(be))])

\* C37: when the snapshot written by an Exchange backup records the new
\* continuation token of a mail folder, the calendar or a contact folder,
\* every non-removed item of that enumeration has a tree node in the
\* snapshot.
C37_TokenAdvancesWithItems ==
    [][(/\ run.active /\ run.service = "exchange"
        /\ SnapIds(backend') # SnapIds(backend)) =>
          \A i \in 1..Len(run.log) :
              DeltaState_key("exchange", UserId, run.log[i].resource)
                      \in DOMAIN Written(backend, backend').delta_tokens =>
                  \A id \in run.log[i].active :
                      \E n \in 1..Len(Written(backend, backend').tree) :
                          /\ Written(backend, backend').tree[n].graph_id = id
                          /\ Written(backend, backend').tree[n].resource
                                 = run.log[i].resource]_vars

RECURSIVE SumSizes(_)
\* the sum of the sizes of the nodes of a tree
SumSizes(tree) ==
    IF tree = <<>> THEN 0 ELSE tree[1].size + SumSizes(Tail(tree))

\* the snapshots in the store
StoredSnapshots(be) ==
    {Snapshot_from_bytes(be[snapshot_path(id)]) : id \in SnapIds(be)}

\* C38: in every snapshot written by a backup run, stats.total_items is the
\* number of tree nodes, stats.total_bytes is the sum of the sizes of the
\* nodes, and new_items + unchanged_items = total_items.
C38_StatsMatchTree ==
    \A s \in StoredSnapshots(backend) :
        /\ s.stats.total_items = Len(s.tree)
        /\ s.stats.total_bytes = SumSizes(s.tree)
        /\ s.stats.new_items + s.stats.unchanged_items = s.stats.total_items

\* a snapshot of two nodes, one of them an item without new content
C38_Witness ==
    \E s \in StoredSnapshots(backend) :
        /\ Len(s.tree) >= 2
        /\ s.stats.unchanged_items >= 1
        /\ s.stats.total_bytes >= 1

----------------------------------------------------------------------------
(* Properties of the Graph client *)

\* the call in flight obeys the retry rules
ClientRetryRules ==
    call.pc \in {"send", "sleep", "done"} =>
        /\ \A i \in 1..(Len(call.statuses) - 1) : Throttled(call.statuses[i])
        /\ call.sent <= MAX_RETRIES + 1
        /\ call.retries <= MAX_RETRIES + 1
        /\ call.result = "max retries exceeded" <=>
               /\ Len(call.statuses) = MAX_RETRIES + 1
               /\ \A i \in 1..Len(call.statuses) : Throttled(call.statuses[i])
        /\ call.pc = "sleep" =>
               /\ Len(call.statuses) <= MAX_RETRIES
               /\ Throttled(call.statuses[Len(call.statuses)])
        /\ (/\ call.statuses # <<>>
            /\ ~Throttled(call.statuses[Len(call.statuses)])
            /\ ~is_success(call.statuses[Len(call.statuses)])) =>
               (call.pc = "done" /\ call.result = "returned status")

====
